---- MODULE Spec2Model ----
(***************************************************************************)
(* Model of the session/process orchestration core of clauductor:          *)
(*   - SessionManager (packages/server/src/services/SessionManager.ts)     *)
(*   - ProcessPool and OutputParser (services/ProcessPool.ts)              *)
(*   - FileStorage (services/FileStorage.ts) and SessionRepository         *)
(* Strings are sequences of one-character strings.                         *)
(***************************************************************************)
EXTENDS Integers, Sequences, FiniteSets, TLC

\* ---------------------------------------------------------------- bounds
MaxSessions == 2     \* session ids in use with the repository backend
MaxFileSessions == 1 \* session ids in use with the file fallback
MaxProcs == 2        \* process ids randomUUID() hands out in one run
MaxPathLen == 3      \* longest working-directory string tried
MaxFileOps == 2      \* calls suspended on a FileStorage promise at once
MaxSaves == 2        \* unawaited saveSession promises of one session at once

None == 0

SessionIds == 1..MaxSessions
ProcIds == 1..MaxProcs
Statuses == {"idle", "running", "error"}

\* ------------------------------------------------------ working directory
PathChars == {"/", ".", "a"}

RECURSIVE StringsUpTo(_, _)
StringsUpTo(chars, n) ==
    IF n = 0 THEN {<<>>}
    ELSE LET shorter == StringsUpTo(chars, n - 1)
         IN shorter \cup {Append(s, c) : s \in {t \in shorter : Len(t) = n - 1}, c \in chars}

PathStrings == StringsUpTo(PathChars, MaxPathLen)

\* process.cwd() of the server
Cwd == <<"/", "a">>

\* String.prototype.includes
Includes(s, sub) ==
    \E i \in 1..(Len(s) - Len(sub) + 1) : SubSeq(s, i, i + Len(sub) - 1) = sub

\* s.split(sep) for a one-character separator: the sequence of pieces
RECURSIVE Split(_, _)
Split(s, sep) ==
    IF \A i \in 1..Len(s) : s[i] # sep THEN <<s>>
    ELSE LET k == CHOOSE i \in 1..Len(s) : s[i] = sep /\ \A j \in 1..(i - 1) : s[j] # sep
         IN <<SubSeq(s, 1, k - 1)>> \o Split(SubSeq(s, k + 1, Len(s)), sep)

\* path.resolve followed by path.normalize: the segments of the absolute
\* path, "." dropped and ".." popping the segment before it
RECURSIVE NormalizeSegs(_, _)
NormalizeSegs(segs, acc) ==
    IF segs = <<>> THEN acc
    ELSE LET h == Head(segs)
             t == Tail(segs)
         IN IF h = <<>> \/ h = <<".">> THEN NormalizeSegs(t, acc)
            ELSE IF h = <<".", ".">>
                 THEN NormalizeSegs(t, IF acc = <<>> THEN acc ELSE SubSeq(acc, 1, Len(acc) - 1))
                 ELSE NormalizeSegs(t, Append(acc, h))

Resolve(p) ==
    LET abs == IF p # <<>> /\ p[1] = "/" THEN p ELSE Cwd \o <<"/">> \o p
    IN NormalizeSegs(Split(abs, "/"), <<>>)

\* the file system the server runs on: /, /a and /a/a are directories,
\* /a/.a is a regular file
FsDirs == { <<>>, << <<"a">> >>, << <<"a">>, <<"a">> >> }
FsFiles == { << <<"a">>, <<".", "a">> >> }

ExistsSync(segs) == segs \in FsDirs \cup FsFiles
IsDirectory(segs) == segs \in FsDirs

\* options.workingDir || process.cwd()
WorkingDirArg(p) == IF p = <<>> THEN Cwd ELSE p

ValidateOnNormalized(workingDir) ==
    LET normalized == Resolve(workingDir)
    IN IF \E i \in 1..Len(normalized) : Includes(normalized[i], <<".", ".">>) THEN "traversal"
       ELSE IF ~ExistsSync(normalized) THEN "missing"
       ELSE IF ~IsDirectory(normalized) THEN "notdir"
       ELSE "ok"

\* validateWorkingDir(options.workingDir || process.cwd()): "ok" when it
\* returns, else the error it throws
ValidateWorkingDir(workingDir) ==
    LET normalized == Resolve(workingDir)
    IN IF Includes(workingDir, <<".", ".">>) THEN "traversal"
       ELSE IF ~ExistsSync(normalized) THEN "missing"
       ELSE IF ~IsDirectory(normalized) THEN "notdir"
       ELSE "ok"

\* the outcome of the validation for every string tried
Validation == [p \in PathStrings |-> ValidateWorkingDir(WorkingDirArg(p))]

\* ----------------------------------------------------------- OutputParser
MaxChunkLen == 4     \* longest chunk handed to parse()
MaxText == 5         \* characters fed to one parser between two resets

\* the characters of process output: braces, the digit 1 and the newline
OutChars == {"{", "}", "1", "\n"}
Chunks == StringsUpTo(OutChars, MaxChunkLen) \ {<<>>}

\* white space of String.prototype.trim and of JSON
Ws == {" ", "\n"}

RECURSIVE TrimStart(_)
TrimStart(s) == IF s # <<>> /\ Head(s) \in Ws THEN TrimStart(Tail(s)) ELSE s

RECURSIVE TrimEnd(_)
TrimEnd(s) == IF s # <<>> /\ s[Len(s)] \in Ws THEN TrimEnd(SubSeq(s, 1, Len(s) - 1)) ELSE s

Trim(s) == TrimEnd(TrimStart(s))

\* the characters of s that are not white space
NoWs(s) == SelectSeq(s, LAMBDA c : c \notin Ws)

\* JSON.parse: the texts that parse are the object {} (with white space
\* around the tokens) and the numbers 1, 11, ...; json.type is undefined for
\* both
JsonParse(s) ==
    IF NoWs(s) = <<"{", "}">>
    THEN [ok |-> TRUE, kind |-> "object", type |-> "undefined", digits |-> <<>>]
    ELSE IF Trim(s) # <<>> /\ \A i \in 1..Len(Trim(s)) : Trim(s)[i] = "1"
    THEN [ok |-> TRUE, kind |-> "number", type |-> "undefined", digits |-> Trim(s)]
    ELSE [ok |-> FALSE, kind |-> "none", type |-> "undefined", digits |-> <<>>]

\* JSON.stringify of a parsed value
JsonStringify(json) ==
    IF json.kind = "number" THEN json.digits
    ELSE <<"{", "}">>

\* mapToEvent: the value has no member but its type
MapToEvent(json) ==
    IF json.type = "error" THEN [type |-> "error", text |-> <<"Unknown error">>]
    ELSE [type |-> "text", text |-> JsonStringify(json)]

NoEvent == [type |-> "none", text |-> <<>>]
RawOutputTrimmed(content) == [type |-> "raw", content |-> Trim(content), event |-> NoEvent]

\* { type: 'raw', content }
RawOutput(content) == [type |-> "raw", content |-> content, event |-> NoEvent]
ParsedOutput(content, event) == [type |-> "parsed", content |-> content, event |-> event]

\* new OutputParser()
NewParser == [mode |-> "auto", detectedMode |-> "null", lineBuffer |-> <<>>]

\* setMode
SetMode(ps, mode) ==
    [ps EXCEPT !.mode = mode, !.detectedMode = IF mode # "auto" THEN mode ELSE @]

\* getMode
GetMode(ps) == IF ps.detectedMode = "null" THEN "raw" ELSE ps.detectedMode

ResetKeepBuffer(ps) ==
    [ps EXCEPT !.detectedMode = IF ps.mode = "auto" THEN "null" ELSE @]

ResetKeepMode(ps) == [ps EXCEPT !.lineBuffer = <<>>]

\* reset
Reset(ps) ==
    [ps EXCEPT !.lineBuffer = <<>>,
               !.detectedMode = IF ps.mode = "auto" THEN "null" ELSE @]

DetectFormatByBrace(chunk) ==
    IF Trim(chunk) # <<>> /\ Head(Trim(chunk)) = "{" THEN "json" ELSE "raw"

\* detectFormat
DetectFormat(chunk) ==
    LET trimmed == Trim(chunk)
    IN IF trimmed # <<>> /\ Head(trimmed) = "{"
       THEN IF JsonParse(Split(trimmed, "\n")[1]).ok THEN "json" ELSE "raw"
       ELSE "raw"

\* parseLine: the output, and whether the catch branch ran
ParseLine(line) ==
    LET json == JsonParse(line)
    IN IF json.ok
       THEN [out |-> ParsedOutput(line, MapToEvent(json)), failed |-> FALSE]
       ELSE [out |-> RawOutput(line), failed |-> TRUE]

\* the loop of parse over the complete lines: the results, and whether some
\* parseLine set detectedMode to raw
RECURSIVE ParseLines(_, _)
ParseLines(lines, acc) ==
    IF lines = <<>> THEN acc
    ELSE IF Trim(Head(lines)) = <<>> THEN ParseLines(Tail(lines), acc)
    ELSE LET r == ParseLine(Head(lines))
         IN ParseLines(Tail(lines), [results |-> Append(acc.results, r.out),
                                     failed |-> acc.failed \/ r.failed])

ParseNoDowngrade(ps, chunk) ==
    IF ps.mode = "raw"
    THEN [parser |-> [ps EXCEPT !.detectedMode = "raw"],
          results |-> <<RawOutput(chunk)>>, failed |-> FALSE]
    ELSE LET detected == IF ps.mode = "auto" /\ ps.detectedMode = "null"
                         THEN DetectFormat(chunk) ELSE ps.detectedMode
         IN IF detected = "raw"
            THEN [parser |-> [ps EXCEPT !.detectedMode = "raw"],
                  results |-> <<RawOutput(chunk)>>, failed |-> FALSE]
            ELSE LET lines == Split(ps.lineBuffer \o chunk, "\n")
                     r == ParseLines(SubSeq(lines, 1, Len(lines) - 1),
                                     [results |-> <<>>, failed |-> FALSE])
                 IN [parser |-> [ps EXCEPT !.detectedMode = detected,
                                           !.lineBuffer = lines[Len(lines)]],
                     results |-> r.results, failed |-> r.failed]

\* parse: the parser afterwards, the results, and whether a malformed line
\* downgraded the parser in this call
Parse(ps, chunk) ==
    IF ps.mode = "raw"
    THEN [parser |-> [ps EXCEPT !.detectedMode = "raw"],
          results |-> <<RawOutput(chunk)>>, failed |-> FALSE]
    ELSE LET detected == IF ps.mode = "auto" /\ ps.detectedMode = "null"
                         THEN DetectFormat(chunk) ELSE ps.detectedMode
         IN IF detected = "raw"
            THEN [parser |-> [ps EXCEPT !.detectedMode = "raw"],
                  results |-> <<RawOutput(chunk)>>, failed |-> FALSE]
            ELSE LET lines == Split(ps.lineBuffer \o chunk, "\n")
                     r == ParseLines(SubSeq(lines, 1, Len(lines) - 1),
                                     [results |-> <<>>, failed |-> FALSE])
                 IN [parser |-> [ps EXCEPT !.detectedMode = IF r.failed THEN "raw" ELSE detected,
                                           !.lineBuffer = lines[Len(lines)]],
                     results |-> r.results, failed |-> r.failed]

\* ------------------------------------------------------------------ state
VARIABLES
    backend,    \* "repo": a SessionRepository is configured; "file": FileStorage fallback
    sessions,   \* SessionManager.sessions: id -> ManagedSession
    nextSid,    \* next id nanoid() returns
    nextPid,    \* next id crypto.randomUUID() returns
    pool,       \* ProcessPool.processes: the registered process ids
    procs,      \* the pty processes: owner session of the callbacks, life-cycle state
    store,      \* sessions table (repo) or session files (file)
    fileOps,    \* the calls suspended on a FileStorage promise
    saving,     \* id -> the number of unawaited saveSession promises in flight
    loadSnap,   \* loadSessions suspended on loadAllSessions: the sessions it read
    emitted,    \* the events emitted by the last step, in order
    lastOp,     \* the last operation and how it ended
    config,     \* SessionManagerConfig: which optional repositories are configured
    messages,   \* messages table, in rowid order
    mparser,    \* id -> the OutputParser of the ManagedSession
    outputBuffer,       \* SessionManager.outputBuffer
    outputBufferTimer,  \* SessionManager.outputBufferTimer
    batches,    \* the outputRepo.createBatch calls of the last step, in order
    lastArg,    \* the arguments and clock reading of the last operation
    tables,     \* the sessions tables of two databases, each in rowid order
    found,      \* the last SessionRepository call and what it returned
    persistenceTimer,   \* SessionManager.persistenceTimer is set
    destroyAll, \* the destroyAll call: its progress, the ids it read, those left
    destroyed,  \* the ids whose destroySession has resolved
    migTables,  \* the migrations table of each database, in insertion order
    schemas,    \* per database the versions whose sql is committed, in order
    migLast,    \* the last call of the migration runner and what it returned
    parser,     \* an OutputParser: mode, detectedMode, lineBuffer
    pHist,      \* what the parser was fed and returned since its last reset
    pLast       \* the last call on the parser

\* the parsers, the tables and the buffer the output and message paths work on
outVars == <<messages, mparser, outputBuffer, outputBufferTimer>>

mgrVars == <<backend, sessions, nextSid, nextPid, pool, procs, store, fileOps, saving,
             loadSnap, emitted, lastOp, config, outVars, batches, lastArg>>

MaxInput == 2        \* writes to a pty that are remembered
MaxMessages == 3     \* rows of the messages table
MaxClock == 2        \* readings of Date.now()

\* the message texts tried
Contents == {"a", "b"}
Clock == 1..MaxClock

\* new SessionManager({...}) without and with the optional repositories
NoRepos == [messageRepo |-> FALSE, outputRepo |-> FALSE]

\* content: the message of sendMessage; now: what Date.now() returned;
\* chunk: the data of a data callback
NoArg == [content |-> "", now |-> 0, chunk |-> <<>>]
SendArg(content, now) == [content |-> content, now |-> now, chunk |-> <<>>]
DataArg(chunk, now) == [content |-> "", now |-> now, chunk |-> chunk]

\* a row of the messages table (role is always user)
MessageRow(sid, content, now) == [sid |-> sid, content |-> content, timestamp |-> now]

NoRow == [present |-> FALSE, status |-> "idle", deleted |-> FALSE]
Row(status) == [present |-> TRUE, status |-> status, deleted |-> FALSE]
\* sess: the session the data and exit listeners were registered for;
\* state: "none" (not spawned), "live", "killed" (pty.kill() called, exit not
\* yet reported) or "exited"; input: the last MaxInput writes to the pty;
\* size: the columns of the last pty.resize (0: the size given to pty.spawn);
\* fed: the pty has delivered data
NoProc == [sess |-> None, state |-> "none", input |-> <<>>, size |-> 0, fed |-> FALSE]
NoLoad == [pending |-> FALSE, ids |-> {}]

\* a map entry; an id that is not in the map keeps the status its Session
\* object had when it left the map (promises in flight still hold the object)
NoManaged == [present |-> FALSE, status |-> "idle", handle |-> None]
NewManagedRunning == [present |-> TRUE, status |-> "running", handle |-> None]
NewManaged == [present |-> TRUE, status |-> "idle", handle |-> None]

KnownAlways(ss, sid) == TRUE

Known(ss, sid) == ss[sid].present
KnownIds == {s \in SessionIds : Known(sessions, s)}

StatusEvent(sid, status) == [kind |-> "status", sid |-> sid, status |-> status]

\* outcome: "resolved"/"rejected" (promise), "returned", "noop" (unknown id) or
\* "suspended" (awaiting FileStorage); status: the status of the session (for
\* createSession, of the Session it returns); spawn: "ok"/"failed"/"none";
\* pid: the process written to, or that exited; why: the reason of a
\* rejection, the exit code of an exit ("exit0"/"exit1"), and for a resolved
\* createSession whether another call acted on the session meanwhile
\* ("raced") or not ("quiet")
Op(op, sid, outcome, status, spawn, pid, why) ==
    [op |-> op, sid |-> sid, outcome |-> outcome, status |-> status, spawn |-> spawn,
     pid |-> pid, why |-> why]

\* a call suspended on a FileStorage promise: createSession on saveSession
\* ("create"), destroySession on deleteSession ("delete").  frozen: "no" while
\* the Session object createSession returns is the one in the map (or the last
\* one that was), else the status that object kept when loadSessions replaced
\* it; quiet: nothing else has acted on the session since createSession
\* registered it.
FileOp(kind, sid, frozen, quiet) ==
    [kind |-> kind, sid |-> sid, frozen |-> frozen, quiet |-> quiet]

\* the status of the Session object a suspended createSession holds
ObjStatus(ss, o) == IF o.frozen = "no" THEN ss[o.sid].status ELSE o.frozen

\* the part of the state the methods of SessionManager work on
State == [sessions |-> sessions, nextPid |-> nextPid, pool |-> pool, procs |-> procs,
          store |-> store, fileOps |-> fileOps, saving |-> saving, emitted |-> <<>>,
          messages |-> messages, mparser |-> mparser, outputBuffer |-> outputBuffer,
          outputBufferTimer |-> outputBufferTimer, batches |-> <<>>, threw |-> FALSE]

\* another call acts on the session of a suspended createSession
DisturbCreate(ops, sid) ==
    {IF o.kind = "create" /\ o.sid = sid THEN [o EXCEPT !.quiet = FALSE] ELSE o : o \in ops}

\* loadSessions replaces the map entries of ids: a suspended createSession
\* keeps the old object
Freeze(ops, ss, ids) ==
    {IF o.kind = "create" /\ o.sid \in ids
        THEN [o EXCEPT !.quiet = FALSE, !.frozen = ObjStatus(ss, o)]
        ELSE o : o \in ops}

\* the persistence call at the end of updateSessionStatus: sessionRepo.update
\* (UPDATE ... WHERE id) or an unawaited fileStorage.saveSession
PersistStatus(st, sid) ==
    IF backend = "repo"
    THEN IF st.store[sid].present
         THEN [st EXCEPT !.store[sid].status = st.sessions[sid].status]
         ELSE st
    ELSE [st EXCEPT !.saving[sid] = @ + 1]

UpdateSessionStatusNoEmit(st, sid, status) ==
    IF ~Known(st.sessions, sid) THEN st
    ELSE PersistStatus([st EXCEPT !.sessions[sid].status = status,
                                  !.fileOps = DisturbCreate(@, sid)], sid)

\* updateSessionStatus
UpdateSessionStatus(st, sid, status) ==
    IF ~Known(st.sessions, sid) THEN st
    ELSE PersistStatus([st EXCEPT !.sessions[sid].status = status,
                                  !.fileOps = DisturbCreate(@, sid),
                                  !.emitted = Append(@, StatusEvent(sid, status))], sid)

\* ProcessPool.spawn when pty.spawn succeeds: a fresh id is registered
PoolSpawn(st, sid) ==
    [st EXCEPT !.pool = @ \cup {st.nextPid},
               !.procs[st.nextPid] = [NoProc EXCEPT !.sess = sid, !.state = "live"],
               !.nextPid = @ + 1]

SpawnProcessKeepStatus(st, sid, ok) ==
    IF ~Known(st.sessions, sid) THEN st
    ELSE IF ok
         THEN [PoolSpawn(st, sid) EXCEPT !.sessions[sid].handle = st.nextPid,
                                         !.mparser[sid] = Reset(@)]
         ELSE st

\* spawnProcess; ok tells whether processPool.spawn returns or throws
SpawnProcess(st, sid, ok) ==
    IF ~Known(st.sessions, sid) THEN st
    ELSE IF ok
         THEN [PoolSpawn(st, sid) EXCEPT !.sessions[sid].handle = st.nextPid,
                                         !.mparser[sid] = Reset(@)]
         ELSE LET st1 == UpdateSessionStatus(st, sid, "error")
              IN [st1 EXCEPT !.emitted = Append(@, StatusEvent(sid, "error"))]

PoolKillKeepRegistered(st, pid) ==
    IF pid \in st.pool
    THEN [st EXCEPT !.procs[pid].state = "killed"]
    ELSE st

\* ProcessPool.kill
PoolKill(st, pid) ==
    IF pid \in st.pool
    THEN [st EXCEPT !.pool = @ \ {pid}, !.procs[pid].state = "killed"]
    ELSE st

\* ProcessPool.killAll: kill(id) for every id of the registry
RECURSIVE PoolKillAll(_, _)
PoolKillAll(st, ids) ==
    IF ids = {} THEN st
    ELSE LET pid == CHOOSE p \in ids : \A q \in ids : p <= q
         IN PoolKillAll(PoolKill(st, pid), ids \ {pid})

PoolResizeAny(st, pid, cols) == [st EXCEPT !.procs[pid].size = cols]

\* ProcessPool.resize
PoolResize(st, pid, cols) ==
    IF pid \in st.pool THEN [st EXCEPT !.procs[pid].size = cols] ELSE st

\* the last MaxInput elements of a sequence
LastOf(seq) == IF Len(seq) <= MaxInput THEN seq ELSE SubSeq(seq, Len(seq) - MaxInput + 1, Len(seq))

PoolWriteTwice(st, pid, data) ==
    IF pid \in st.pool
    THEN [st EXCEPT !.procs[pid].input = LastOf(Append(Append(@, data), data))]
    ELSE st

\* ProcessPool.write
PoolWrite(st, pid, data) ==
    IF pid \in st.pool THEN [st EXCEPT !.procs[pid].input = LastOf(Append(@, data))] ELSE st

\* how a callback or call ends: on an id that is not in the map, with an
\* exception that reached it, or normally
Outcome(st, known) == IF ~known THEN "noop" ELSE IF st.threw THEN "threw" ELSE "returned"

\* what the methods leave in the variables
Commit(st) ==
    /\ sessions' = st.sessions
    /\ nextPid' = st.nextPid
    /\ pool' = st.pool
    /\ procs' = st.procs
    /\ store' = st.store
    /\ fileOps' = st.fileOps
    /\ saving' = st.saving
    /\ emitted' = st.emitted
    /\ messages' = st.messages
    /\ mparser' = st.mparser
    /\ outputBuffer' = st.outputBuffer
    /\ outputBufferTimer' = st.outputBufferTimer
    /\ batches' = st.batches

\* a spawn can be tried with either outcome while process ids are left
SessionLimit == IF backend = "file" THEN MaxFileSessions ELSE MaxSessions
SpawnOutcomes == IF nextPid <= MaxProcs THEN {TRUE, FALSE} ELSE {FALSE}
FileOpsBound ==
    /\ Cardinality(fileOps') <= MaxFileOps
    /\ \A s \in SessionIds : saving'[s] <= MaxSaves

SpawnTag(tried, ok) == IF ~tried THEN "none" ELSE IF ok THEN "ok" ELSE "failed"

\* ------------------------------------------------------------------- init
MaxStored == 1       \* sessions a previous run left in the store

MgrInit ==
    /\ backend \in {"repo", "file"}
    /\ sessions = [s \in SessionIds |-> NoManaged]
    /\ \E k \in 0..MaxStored : \E stt \in Statuses :
          /\ nextSid = k + 1
          /\ store = [s \in SessionIds |-> IF s <= k THEN Row(stt) ELSE NoRow]
    /\ nextPid = 1
    /\ pool = {}
    /\ procs = [p \in ProcIds |-> NoProc]
    /\ fileOps = {}
    /\ saving = [s \in SessionIds |-> 0]
    /\ loadSnap = NoLoad
    /\ emitted = <<>>
    /\ lastOp = Op("init", None, "returned", "idle", "none", None, "none")
    /\ config \in [messageRepo : BOOLEAN, outputRepo : BOOLEAN]
    /\ messages = <<>>
    /\ mparser = [s \in SessionIds |-> NewParser]
    /\ outputBuffer = <<>>
    /\ outputBufferTimer = None
    /\ batches = <<>>
    /\ lastArg = NoArg

\* ---------------------------------------------------------- createSession
CreateSessionSwallow(p, dbOk, spawnOk) ==
    /\ nextSid <= SessionLimit
    /\ lastArg' = NoArg
    /\ UNCHANGED <<backend, config, loadSnap>>
    /\ LET id == nextSid
           v == Validation[p]
           st0 == [State EXCEPT !.sessions[id] = NewManaged]
       IN IF v # "ok"
          THEN /\ lastOp' = Op("createSession", None, "rejected", "idle", "none", None, v)
               /\ emitted' = <<>> /\ batches' = <<>> /\ UNCHANGED outVars
               /\ UNCHANGED <<sessions, nextSid, nextPid, pool, procs, store, fileOps, saving>>
          ELSE /\ nextSid' = id + 1
               /\ IF backend = "repo"
                  THEN IF FALSE
                       THEN /\ Commit(st0)
                            /\ lastOp' = Op("createSession", id, "rejected", "idle", "none", None, "persist")
                       ELSE LET st1 == IF dbOk THEN [st0 EXCEPT !.store[id] = Row("idle")] ELSE st0
                                st2 == SpawnProcess(st1, id, spawnOk)
                            IN /\ Commit(st2)
                               /\ lastOp' = Op("createSession", id, "resolved", st2.sessions[id].status,
                                               SpawnTag(TRUE, spawnOk), None, "quiet")
                  ELSE /\ Commit([st0 EXCEPT !.fileOps = @ \cup {FileOp("create", id, "no", TRUE)}])
                       /\ lastOp' = Op("createSession", id, "suspended", "idle", "none", None, "none")
    /\ FileOpsBound

\* createSession up to its await (file) or to its end (repo).
\* p: options.workingDir; dbOk: sessionRepo.create returns; spawnOk: pty.spawn returns
CreateSession(p, dbOk, spawnOk) ==
    /\ nextSid <= SessionLimit
    /\ lastArg' = NoArg
    /\ UNCHANGED <<backend, config, loadSnap>>
    /\ LET id == nextSid
           v == Validation[p]
           st0 == [State EXCEPT !.sessions[id] = NewManaged]
       IN IF v # "ok"
          THEN /\ lastOp' = Op("createSession", None, "rejected", "idle", "none", None, v)
               /\ emitted' = <<>> /\ batches' = <<>> /\ UNCHANGED outVars
               /\ UNCHANGED <<sessions, nextSid, nextPid, pool, procs, store, fileOps, saving>>
          ELSE /\ nextSid' = id + 1
               /\ IF backend = "repo"
                  THEN IF ~dbOk
                       THEN /\ Commit(st0)
                            /\ lastOp' = Op("createSession", id, "rejected", "idle", "none", None, "persist")
                       ELSE LET st1 == [st0 EXCEPT !.store[id] = Row("idle")]
                                st2 == SpawnProcess(st1, id, spawnOk)
                            IN /\ Commit(st2)
                               /\ lastOp' = Op("createSession", id, "resolved", st2.sessions[id].status,
                                               SpawnTag(TRUE, spawnOk), None, "quiet")
                  ELSE /\ Commit([st0 EXCEPT !.fileOps = @ \cup {FileOp("create", id, "no", TRUE)}])
                       /\ lastOp' = Op("createSession", id, "suspended", "idle", "none", None, "none")
    /\ FileOpsBound

\* an unawaited saveSession(managed.session) settles: the file holds the
\* session as serialised (a failure is swallowed by the caller's catch)
SaveDone(sid, ok) ==
    /\ saving[sid] > 0
    /\ saving' = [saving EXCEPT ![sid] = @ - 1]
    /\ store' = IF ok THEN [store EXCEPT ![sid] = Row(sessions[sid].status)] ELSE store
    /\ emitted' = <<>> /\ batches' = <<>> /\ UNCHANGED outVars
    /\ lastOp' = Op("saveSession", sid, IF ok THEN "resolved" ELSE "rejected", "idle", "none",
                    None, "none")
    /\ lastArg' = NoArg
    /\ UNCHANGED <<backend, config, sessions, nextSid, nextPid, pool, procs, fileOps, loadSnap>>

\* createSession after `await this.fileStorage.saveSession(session)`
CreateResume(o, ok, spawnOk) ==
    /\ o \in fileOps /\ o.kind = "create"
    /\ lastArg' = NoArg
    /\ UNCHANGED <<backend, config, nextSid, loadSnap>>
    /\ LET st0 == [State EXCEPT !.fileOps = fileOps \ {o}]
           known == Known(sessions, o.sid)
           obj == ObjStatus(sessions, o)
       IN IF ~ok
          THEN /\ Commit(st0)
               /\ lastOp' = Op("createSession", o.sid, "rejected", obj, "none", None, "persist")
          ELSE LET st1 == [st0 EXCEPT !.store[o.sid] = Row(obj)]
                   st2 == SpawnProcess(st1, o.sid, spawnOk)
               IN /\ Commit(st2)
                  /\ lastOp' = Op("createSession", o.sid, "resolved",
                                  IF o.frozen = "no" THEN st2.sessions[o.sid].status ELSE obj,
                                  SpawnTag(known, spawnOk), None,
                                  IF o.quiet THEN "quiet" ELSE "raced")
    /\ FileOpsBound

\* --------------------------------------------------------- destroySession
Remove(ss, sid) == [ss EXCEPT ![sid].present = FALSE, ![sid].handle = None]

\* destroySession up to its await (file) or to its end (repo)
DestroySession(sid) ==
    /\ lastArg' = NoArg
    /\ UNCHANGED <<backend, config, nextSid, loadSnap>>
    /\ IF ~Known(sessions, sid)
       THEN /\ lastOp' = Op("destroySession", sid, "noop", "idle", "none", None, "none")
            /\ emitted' = <<>> /\ batches' = <<>> /\ UNCHANGED outVars
            /\ UNCHANGED <<sessions, nextPid, pool, procs, store, fileOps, saving>>
       ELSE LET h == sessions[sid].handle
                st1 == IF h # None THEN PoolKill(State, h) ELSE State
            IN IF backend = "repo"
               THEN /\ Commit([st1 EXCEPT !.store[sid].deleted = st1.store[sid].present,
                                          !.sessions = Remove(@, sid)])
                    /\ lastOp' = Op("destroySession", sid, "resolved", "idle", "none", None, "none")
               ELSE /\ Commit([st1 EXCEPT !.fileOps = DisturbCreate(@, sid) \cup
                                                     {FileOp("delete", sid, "no", FALSE)}])
                    /\ lastOp' = Op("destroySession", sid, "suspended", "idle", "none", None, "none")
    /\ FileOpsBound

\* destroySession after `await this.fileStorage.deleteSession(sessionId)`:
\* the file is gone (a failing unlink is ignored), the session leaves the map
DestroyResume(o) ==
    /\ o \in fileOps /\ o.kind = "delete"
    /\ lastArg' = NoArg
    /\ UNCHANGED <<backend, config, nextSid, loadSnap, nextPid, pool, procs, saving>>
    /\ store' = [store EXCEPT ![o.sid] = NoRow]
    /\ sessions' = Remove(sessions, o.sid)
    /\ fileOps' = DisturbCreate(fileOps \ {o}, o.sid)
    /\ emitted' = <<>> /\ batches' = <<>> /\ UNCHANGED outVars
    /\ lastOp' = Op("destroySession", o.sid, "resolved", "idle", "none", None, "none")

StoreMessageUncaught(st, sid, content, now, msgOk) ==
    IF config.messageRepo
    THEN IF msgOk THEN [st EXCEPT !.messages = Append(@, MessageRow(sid, content, now))]
         ELSE [st EXCEPT !.threw = TRUE]
    ELSE st

\* ------------------------------------------------------------ sendMessage
\* messageRepo.create inside its try: msgOk tells whether the insert returns
StoreMessage(st, sid, content, now, msgOk) ==
    IF config.messageRepo /\ msgOk
    THEN [st EXCEPT !.messages = Append(@, MessageRow(sid, content, now))]
    ELSE st

\* sendMessage(sid, content); now: Date.now(); msgOk: messageRepo.create
\* returns; spawnOk: pty.spawn returns
SendMessage(sid, content, now, msgOk, spawnOk) ==
    /\ config.messageRepo => Len(messages) < MaxMessages
    /\ lastArg' = SendArg(content, now)
    /\ UNCHANGED <<backend, config, nextSid, loadSnap>>
    /\ IF ~Known(sessions, sid)
       THEN /\ lastOp' = Op("sendMessage", sid, "noop", "idle", "none", None, "none")
            /\ emitted' = <<>> /\ batches' = <<>> /\ UNCHANGED outVars
            /\ UNCHANGED <<sessions, nextPid, pool, procs, store, fileOps, saving>>
       ELSE LET unbound == sessions[sid].handle = None
                st0 == StoreMessage(State, sid, content, now, msgOk)
                st1 == IF st0.threw THEN st0
                       ELSE IF unbound THEN SpawnProcess(st0, sid, spawnOk) ELSE st0
                st2 == IF st0.threw THEN st0 ELSE UpdateSessionStatus(st1, sid, "running")
                h == st2.sessions[sid].handle
                st3 == IF h # None /\ ~st0.threw THEN PoolWrite(st2, h, <<content, "\n">>)
                       ELSE st2
            IN /\ Commit(st3)
               /\ lastOp' = Op("sendMessage", sid, Outcome(st0, TRUE), st3.sessions[sid].status,
                               SpawnTag(unbound, spawnOk),
                               IF h \in st2.pool THEN h ELSE None, "none")
    /\ FileOpsBound

\* ------------------------------------------------------- process callbacks
ExitStatusIdle(code) == "idle"

\* const newStatus = code === 0 ? 'idle' : 'error'
ExitStatus(code) == IF code = 0 THEN "idle" ELSE "error"

HandleProcessExitKeepHandle(st, sid, code) ==
    IF ~Known(st.sessions, sid) THEN st
    ELSE UpdateSessionStatus(st, sid, ExitStatus(code))

\* handleProcessExit
HandleProcessExit(st, sid, code) ==
    IF ~Known(st.sessions, sid) THEN st
    ELSE UpdateSessionStatus([st EXCEPT !.sessions[sid].handle = None], sid, ExitStatus(code))

\* the pty reports the exit of process pid (on its own, or after a kill):
\* the exit listeners run, then the pool forgets the process
ProcessExit(pid, code) ==
    /\ procs[pid].state \in {"live", "killed"}
    /\ lastArg' = NoArg
    /\ UNCHANGED <<backend, config, nextSid, loadSnap>>
    /\ LET sid == procs[pid].sess
           st1 == HandleProcessExit(State, sid, code)
           st2 == [st1 EXCEPT !.pool = @ \ {pid}, !.procs[pid].state = "exited"]
       IN /\ Commit(st2)
          /\ lastOp' = Op("exit", sid, IF Known(sessions, sid) THEN "returned" ELSE "noop",
                          st2.sessions[sid].status, "none", pid,
                          IF code = 0 THEN "exit0" ELSE "exit1")
    /\ FileOpsBound

\* ---------------------------------------------------- ProcessPool calls
\* the terminal widths a resize is tried with
Sizes == {1, 2}

PoolOp(op, pid, outcome) == Op(op, None, outcome, "idle", "none", pid, "none")

PoolFrame ==
    /\ lastArg' = NoArg
    /\ UNCHANGED <<backend, config, nextSid, loadSnap>>

\* spawn(options) called on the pool itself: pty.spawn returns, or throws
\* before anything is registered
PoolOpSpawn(ok) ==
    /\ PoolFrame
    /\ IF ok
       THEN /\ nextPid <= MaxProcs
            /\ Commit(PoolSpawn(State, None))
            /\ lastOp' = PoolOp("spawn", nextPid, "returned")
       ELSE /\ Commit(State)
            /\ lastOp' = PoolOp("spawn", None, "threw")

PoolOpWrite(pid, data) ==
    /\ PoolFrame
    /\ Commit(PoolWrite(State, pid, data))
    /\ lastOp' = PoolOp("write", pid, "returned")

PoolOpResize(pid, cols) ==
    /\ PoolFrame
    /\ Commit(PoolResize(State, pid, cols))
    /\ lastOp' = PoolOp("resize", pid, "returned")

PoolOpKill(pid) ==
    /\ PoolFrame
    /\ Commit(PoolKill(State, pid))
    /\ lastOp' = PoolOp("kill", pid, "returned")

PoolOpKillAll ==
    /\ PoolFrame
    /\ Commit(PoolKillAll(State, pool))
    /\ lastOp' = PoolOp("killAll", None, "returned")

\* ptyProcess.onExit of the pool: the exit is re-emitted (nobody listens
\* here) and the id leaves the registry
PoolOnExit(pid) ==
    /\ procs[pid].state \in {"live", "killed"}
    /\ PoolFrame
    /\ Commit([State EXCEPT !.pool = @ \ {pid}, !.procs[pid].state = "exited"])
    /\ lastOp' = PoolOp("onExit", pid, "returned")

PoolNext ==
    \/ \E ok \in BOOLEAN : PoolOpSpawn(ok)
    \/ \E pid \in ProcIds : \E data \in Contents : PoolOpWrite(pid, data)
    \/ \E pid \in ProcIds : \E cols \in Sizes : PoolOpResize(pid, cols)
    \/ \E pid \in ProcIds : PoolOpKill(pid)
    \/ PoolOpKillAll
    \/ \E pid \in ProcIds : PoolOnExit(pid)

\* ----------------------------------------------------------- output path
BufferSize == 3      \* outputBufferSize

MaxPending == 1      \* characters of an incomplete line held by a session's parser

\* the chunks of process output tried: an object line; an object line and a
\* number line; the two halves of an object line; a number line
DataChunks ==
    {<<"{", "}", "\n">>, <<"{", "}", "\n", "1", "\n">>, <<"{">>, <<"}", "\n">>, <<"1", "\n">>}

BufferedOutputUnstamped(sid, output, now) ==
    [sessionId |-> sid, type |-> output.type, content |-> output.content,
     event |-> output.event, timestamp |-> 0]

\* the record handed to bufferOutput; now: what Date.now() returned for the
\* sessionOutput of this output
BufferedOutput(sid, output, now) ==
    [sessionId |-> sid, type |-> output.type, content |-> output.content,
     event |-> output.event, timestamp |-> now]

\* emit('output', sessionId, sessionOutput): output holds the type, content
\* and event of sessionOutput
OutputEvent(sid, output, now) ==
    [kind |-> "output", sid |-> sid, output |-> output, timestamp |-> now]

\* a call of outputRepo.createBatch: the rows handed over, and whether it returned
Batch(rows, ok) == [rows |-> rows, ok |-> ok]

KeepOutputTimer(st) == st

\* clearTimeout(this.outputBufferTimer); this.outputBufferTimer = undefined
ClearOutputTimer(st) == [st EXCEPT !.outputBufferTimer = None]

CreateBatchUncaught(st, rows, insertOk) ==
    [st EXCEPT !.batches = Append(@, Batch(rows, insertOk)), !.threw = ~insertOk]

\* try { this.outputRepo.createBatch(toFlush) } catch {}; insertOk: createBatch
\* returns
CreateBatchCaught(st, rows, insertOk) ==
    [st EXCEPT !.batches = Append(@, Batch(rows, insertOk))]

FlushOutputsSyncDrop(st, insertOk) == [ClearOutputTimer(st) EXCEPT !.outputBuffer = <<>>]

\* flushOutputsSync
FlushOutputsSync(st, insertOk) ==
    LET st1 == ClearOutputTimer(st)
    IN IF st1.outputBuffer = <<>> \/ ~config.outputRepo THEN st1
       ELSE CreateBatchCaught([st1 EXCEPT !.outputBuffer = <<>>], st1.outputBuffer, insertOk)

ArmOutputTimerNever(st) == st

\* this.outputBufferTimer = setTimeout(...)
ArmOutputTimer(st) == [st EXCEPT !.outputBufferTimer = Len(st.outputBuffer)]

BufferOutputRearm(st, output, insertOk) ==
    LET st1 == [st EXCEPT !.outputBuffer = Append(@, output)]
    IN IF Len(st1.outputBuffer) >= BufferSize THEN FlushOutputsSync(st1, insertOk)
       ELSE [st1 EXCEPT !.outputBufferTimer = Len(st1.outputBuffer)]

\* bufferOutput.  A pending timer is identified by the length the buffer had
\* when setTimeout was called for it
BufferOutput(st, output, insertOk) ==
    LET st1 == [st EXCEPT !.outputBuffer = Append(@, output)]
    IN IF Len(st1.outputBuffer) >= BufferSize THEN FlushOutputsSync(st1, insertOk)
       ELSE IF st1.outputBufferTimer = None THEN ArmOutputTimer(st1) ELSE st1

EmitOutputFirst(st, sid, output, now) ==
    [st EXCEPT !.emitted = <<OutputEvent(sid, output, now)>> \o @]

\* this.emit('output', sessionId, sessionOutput)
EmitOutput(st, sid, output, now) ==
    [st EXCEPT !.emitted = Append(@, OutputEvent(sid, output, now))]

\* the loop of handleOutput over the parsed outputs; an exception ends it.
\* now: the reading of Date.now() (one reading for the outputs of a callback)
RECURSIVE HandleOutputs(_, _, _, _, _)
HandleOutputs(st, sid, outputs, now, insertOk) ==
    IF outputs = <<>> \/ st.threw THEN st
    ELSE LET st1 == IF config.outputRepo
                    THEN BufferOutput(st, BufferedOutput(sid, Head(outputs), now), insertOk)
                    ELSE st
             st2 == IF st1.threw THEN st1 ELSE EmitOutput(st1, sid, Head(outputs), now)
         IN HandleOutputs(st2, sid, Tail(outputs), now, insertOk)

\* handleOutput
HandleOutput(st, sid, data, now, insertOk) ==
    IF ~Known(st.sessions, sid) THEN st
    ELSE LET r == Parse(st.mparser[sid], data)
         IN HandleOutputs([st EXCEPT !.mparser[sid] = r.parser], sid, r.results, now, insertOk)

\* the pty of process pid delivers data (a killed process can still deliver
\* what it wrote before it died): the data listener runs
ProcessData(pid, chunk, now, insertOk) ==
    /\ procs[pid].state \in {"live", "killed"}
    /\ Len(Parse(mparser[procs[pid].sess], chunk).parser.lineBuffer) <= MaxPending
    /\ lastArg' = DataArg(chunk, now)
    /\ UNCHANGED <<backend, config, nextSid, loadSnap>>
    /\ LET sid == procs[pid].sess
           st == [HandleOutput(State, sid, chunk, now, insertOk) EXCEPT !.procs[pid].fed = TRUE]
       IN /\ Commit(st)
          /\ lastOp' = Op("data", sid, Outcome(st, Known(sessions, sid)),
                          st.sessions[sid].status, "none", pid, "none")

\* the timer set by bufferOutput fires
FlushTimerFires(insertOk) ==
    /\ outputBufferTimer # None
    /\ lastArg' = NoArg
    /\ UNCHANGED <<backend, config, nextSid, loadSnap>>
    /\ LET st == FlushOutputsSync(State, insertOk)
       IN /\ Commit(st)
          /\ lastOp' = Op("flushTimer", None, Outcome(st, TRUE), "idle", "none", None, "none")

\* flushOutputs()
FlushOutputs(insertOk) ==
    /\ lastArg' = NoArg
    /\ UNCHANGED <<backend, config, nextSid, loadSnap>>
    /\ LET st == FlushOutputsSync(State, insertOk)
       IN /\ Commit(st)
          /\ lastOp' = Op("flushOutputs", None, IF st.threw THEN "rejected" ELSE "resolved",
                          "idle", "none", None, "none")

\* ----------------------------------------------------------- loadSessions
\* sessionRepo.findAll() / fileStorage.loadAllSessions(): the ids read
StoredIds == {s \in SessionIds : store[s].present /\ ~store[s].deleted}

LoadIntoKeepStatus(ss, ids) ==
    [s \in SessionIds |-> IF s \in ids THEN [NewManaged EXCEPT !.status = store[s].status]
                                       ELSE ss[s]]

\* the loop of loadSessions: every loaded session replaces the map entry
LoadInto(ss, ids) == [s \in SessionIds |-> IF s \in ids THEN NewManaged ELSE ss[s]]

\* ... with a new OutputParser
LoadParsers(ps, ids) == [s \in SessionIds |-> IF s \in ids THEN NewParser ELSE ps[s]]

LoadSessions ==
    /\ ~loadSnap.pending
    /\ lastArg' = NoArg
    /\ UNCHANGED <<messages, outputBuffer, outputBufferTimer>>
    /\ UNCHANGED <<backend, config, nextSid, nextPid, pool, procs, store, saving>>
    /\ emitted' = <<>> /\ batches' = <<>>
    /\ IF backend = "repo"
       THEN /\ sessions' = LoadInto(sessions, StoredIds)
            /\ mparser' = LoadParsers(mparser, StoredIds)
            /\ fileOps' = Freeze(fileOps, sessions, StoredIds)
            /\ loadSnap' = loadSnap
            /\ lastOp' = Op("loadSessions", None, "resolved", "idle", "none", None, "none")
       ELSE /\ loadSnap' = [pending |-> TRUE, ids |-> StoredIds]
            /\ lastOp' = Op("loadSessions", None, "suspended", "idle", "none", None, "none")
            /\ UNCHANGED <<sessions, fileOps, mparser>>

\* loadSessions after `await this.fileStorage.loadAllSessions()`
LoadResume ==
    /\ loadSnap.pending
    /\ lastArg' = NoArg
    /\ UNCHANGED <<messages, outputBuffer, outputBufferTimer>>
    /\ UNCHANGED <<backend, config, nextSid, nextPid, pool, procs, store, saving>>
    /\ emitted' = <<>> /\ batches' = <<>>
    /\ sessions' = LoadInto(sessions, loadSnap.ids)
    /\ mparser' = LoadParsers(mparser, loadSnap.ids)
    /\ fileOps' = Freeze(fileOps, sessions, loadSnap.ids)
    /\ loadSnap' = NoLoad
    /\ lastOp' = Op("loadSessions", None, "resolved", "idle", "none", None, "none")

\* ------------------------------------------------------ MessageRepository
\* the rowids of the messages of a session
MessageIds(sid) == {i \in 1..Len(messages) : messages[i].sid = sid}

\* rowToMessage
RowToMessage(i) ==
    [id |-> i, sessionId |-> messages[i].sid, content |-> messages[i].content,
     timestamp |-> messages[i].timestamp]

\* ORDER BY timestamp ASC: the row with the lower timestamp comes first; of two
\* rows with equal timestamps SQLite's sorter returns first the one it read
\* first, the one with the lower rowid (SQL itself leaves that order open)
MessageBefore(i, j) ==
    \/ messages[i].timestamp < messages[j].timestamp
    \/ messages[i].timestamp = messages[j].timestamp /\ i < j

\* findBySessionId: SELECT ... WHERE session_id = ? ORDER BY timestamp ASC
FindBySessionId(sid) ==
    LET ids == MessageIds(sid)
    IN [k \in 1..Cardinality(ids) |->
           RowToMessage(CHOOSE i \in ids :
                            Cardinality({j \in ids : MessageBefore(j, i)}) = k - 1)]

\* --------------------------------------- periodic persistence, destroyAll
shutVars == <<persistenceTimer, destroyAll>>

\* state: "idle" (not called), "running" (awaiting a destroySession) or
\* "resolved"; snap: Array.from(this.sessions.keys()); todo: the ids the loop
\* has not reached yet
NoDestroyAll == [state |-> "idle", snap |-> {}, todo |-> <<>>]

histVars == <<destroyed>>

\* the constructor starts the periodic persistence
ShutInit ==
    /\ persistenceTimer = TRUE
    /\ destroyAll = NoDestroyAll
    /\ destroyed = {}

\* the keys of the session map, in the order they were inserted in (the ids
\* are handed out in ascending order)
RECURSIVE KeysOf(_)
KeysOf(ids) ==
    IF ids = {} THEN <<>>
    ELSE LET k == CHOOSE i \in ids : \A j \in ids : i <= j
         IN <<k>> \o KeysOf(ids \ {k})

\* sessionRepo.update(managed.session) / an unawaited fileStorage.saveSession
\* for every session of the map
RECURSIVE PersistAll(_, _)
PersistAll(st, ids) ==
    IF ids = <<>> THEN st
    ELSE PersistAll(PersistStatus(st, Head(ids)), Tail(ids))

\* the interval of startPeriodicPersistence fires: persistAllSessions
PersistAllSessions ==
    /\ persistenceTimer
    /\ lastArg' = NoArg
    /\ UNCHANGED <<backend, config, nextSid, loadSnap, shutVars>>
    /\ Commit(PersistAll(State, KeysOf(KnownIds)))
    /\ lastOp' = Op("persistAll", None, "returned", "idle", "none", None, "none")
    /\ FileOpsBound

\* destroySession(sid) up to its await (file) or to its end (repo)
DestroyOne(st, sid) ==
    IF ~Known(st.sessions, sid) THEN [st |-> st, suspended |-> FALSE]
    ELSE LET h == st.sessions[sid].handle
             st1 == IF h # None THEN PoolKill(st, h) ELSE st
         IN IF backend = "repo"
            THEN [st |-> [st1 EXCEPT !.store[sid].deleted = st1.store[sid].present,
                                     !.sessions = Remove(@, sid)],
                  suspended |-> FALSE]
            ELSE [st |-> [st1 EXCEPT !.fileOps = DisturbCreate(@, sid) \cup
                                                  {FileOp("delete", sid, "no", FALSE)}],
                  suspended |-> TRUE]

\* for (const id of sessionIds) await this.destroySession(id): the loop up to
\* the first destroySession that waits for the file storage
RECURSIVE DestroyLoop(_, _)
DestroyLoop(st, todo) ==
    IF todo = <<>> THEN [st |-> st, todo |-> <<>>, suspended |-> FALSE]
    ELSE LET r == DestroyOne(st, Head(todo))
         IN IF r.suspended THEN [st |-> r.st, todo |-> Tail(todo), suspended |-> TRUE]
            ELSE DestroyLoop(r.st, Tail(todo))

DestroyAllState(r, snap) ==
    [state |-> IF r.suspended THEN "running" ELSE "resolved", snap |-> snap, todo |-> r.todo]

DestroyAllOp(r) ==
    Op("destroyAll", None, IF r.suspended THEN "suspended" ELSE "resolved", "idle", "none",
       None, "none")

\* destroyAll() up to its first wait
DestroyAllCall ==
    /\ destroyAll.state = "idle"
    /\ lastArg' = NoArg
    /\ UNCHANGED <<backend, config, nextSid, loadSnap>>
    /\ persistenceTimer' = FALSE
    /\ LET r == DestroyLoop(State, KeysOf(KnownIds))
       IN /\ Commit(r.st)
          /\ destroyAll' = DestroyAllState(r, KnownIds)
          /\ lastOp' = DestroyAllOp(r)
    /\ FileOpsBound

\* the deleteSession destroyAll waits for settles: the destroySession ends,
\* and the loop goes on
DestroyAllResume(o) ==
    /\ destroyAll.state = "running"
    /\ o \in fileOps /\ o.kind = "delete"
    /\ lastArg' = NoArg
    /\ UNCHANGED <<backend, config, nextSid, loadSnap, persistenceTimer>>
    /\ LET st0 == [State EXCEPT !.store[o.sid] = NoRow,
                                !.sessions = Remove(@, o.sid),
                                !.fileOps = DisturbCreate(fileOps \ {o}, o.sid)]
           r == DestroyLoop(st0, destroyAll.todo)
       IN /\ Commit(r.st)
          /\ destroyAll' = DestroyAllState(r, destroyAll.snap)
          /\ lastOp' = DestroyAllOp(r)
    /\ FileOpsBound

\* ------------------------------------------------------- migration runner
MaxMigrations == 2   \* entries of the migrations list

migVars == <<migTables, schemas, migLast>>

\* const migrations: Migration[], in version order
Migrations == [i \in 1..MaxMigrations |-> i]

\* where a run breaks: at no version (0), or at a version while its sql is
\* executed or while its row is inserted
Failures == {[at |-> 0, kind |-> "none"]} \cup
            [at : 1..MaxMigrations, kind : {"sql", "insert"}]

MigCall(op, db, ret, threw) == [op |-> op, db |-> db, ret |-> ret, threw |-> threw]

MigInit ==
    /\ migTables = [d \in {1, 2} |-> <<>>]
    /\ schemas = [d \in {1, 2} |-> <<>>]
    /\ migLast = MigCall("new", None, 0, FALSE)

\* SELECT version FROM migrations
GetAppliedVersions(table) == {table[i].version : i \in 1..Len(table)}

\* a database: its migrations table and the sql committed to it
Db(d) == [table |-> migTables[d], schema |-> schemas[d]]

ApplyNoTransaction(db, version, now, fail) ==
    IF fail.at = version /\ fail.kind = "sql" THEN [db |-> db, threw |-> TRUE]
    ELSE IF (fail.at = version /\ fail.kind = "insert")
            \/ version \in GetAppliedVersions(db.table)
         THEN [db |-> [db EXCEPT !.schema = Append(@, version)], threw |-> TRUE]
         ELSE [db |-> [db EXCEPT !.schema = Append(@, version),
                                 !.table = Append(@, [version |-> version, appliedAt |-> now])],
               threw |-> FALSE]

\* db.transaction(() => { db.exec(sql); INSERT INTO migrations ... })(): both
\* or, when either throws (the insert also on a version the table holds),
\* neither
ApplyInTransaction(db, version, now, fail) ==
    IF fail.at = version \/ version \in GetAppliedVersions(db.table)
    THEN [db |-> db, threw |-> TRUE]
    ELSE [db |-> [db EXCEPT !.schema = Append(@, version),
                            !.table = Append(@, [version |-> version, appliedAt |-> now])],
          threw |-> FALSE]

\* the loop of runMigrations over the migrations not in appliedVersions
RECURSIVE RunLoop(_, _, _, _, _, _)
RunLoop(db, list, appliedVersions, now, fail, runCount) ==
    IF list = <<>> THEN [db |-> db, ret |-> runCount, threw |-> FALSE]
    ELSE IF Head(list) \in appliedVersions
         THEN RunLoop(db, Tail(list), appliedVersions, now, fail, runCount)
         ELSE LET r == ApplyInTransaction(db, Head(list), now, fail)
              IN IF r.threw THEN [db |-> r.db, ret |-> runCount, threw |-> TRUE]
                 ELSE RunLoop(r.db, Tail(list), appliedVersions, now, fail, runCount + 1)

\* runMigrations(db)
RunMigrations(d, now, fail) ==
    LET r == RunLoop(Db(d), Migrations, GetAppliedVersions(migTables[d]), now, fail, 0)
    IN /\ migTables' = [migTables EXCEPT ![d] = r.db.table]
       /\ schemas' = [schemas EXCEPT ![d] = r.db.schema]
       /\ migLast' = MigCall("runMigrations", d, r.ret, r.threw)

\* getMigrationStatus(db): the number of pending migrations it reports
GetMigrationStatus(d) ==
    /\ migLast' = MigCall("getMigrationStatus", d,
                          Cardinality({i \in 1..MaxMigrations :
                                          Migrations[i] \notin GetAppliedVersions(migTables[d])}),
                          FALSE)
    /\ UNCHANGED <<migTables, schemas>>

MigNext ==
    \/ \E d \in {1, 2} : \E now \in Clock : \E fail \in Failures : RunMigrations(d, now, fail)
    \/ \E d \in {1, 2} : GetMigrationStatus(d)

\* ------------------------------------------------------ SessionRepository
repoVars == <<tables, found>>

Repos == {1, 2}

\* a row of the sessions table: updated_at, and whether deleted_at is set
SessionRow(id, updatedAt) == [id |-> id, updatedAt |-> updatedAt, deleted |-> FALSE]

RowOf(table, id) == {i \in 1..Len(table) : table[i].id = id}

Found(op, repo, result) == [op |-> op, repo |-> repo, result |-> result]

RepoInit ==
    /\ tables = [r \in Repos |-> <<>>]
    /\ found = Found("new", None, None)

\* create: INSERT; the primary key rejects an id the table holds
RepoCreate(r, id, updatedAt) ==
    /\ IF RowOf(tables[r], id) # {}
       THEN /\ found' = Found("create", r, "threw")
            /\ UNCHANGED tables
       ELSE /\ found' = Found("create", r, "returned")
            /\ tables' = [tables EXCEPT ![r] = Append(@, SessionRow(id, updatedAt))]

\* update: UPDATE ... SET updated_at = @updatedAt WHERE id = @id
RepoUpdate(r, id, updatedAt) ==
    /\ found' = Found("update", r, "returned")
    /\ tables' = [tables EXCEPT ![r] =
                      [i \in 1..Len(@) |-> IF @[i].id = id
                                            THEN [@[i] EXCEPT !.updatedAt = updatedAt]
                                            ELSE @[i]]]

\* delete: UPDATE ... SET deleted_at = @deletedAt WHERE id = @id
RepoDelete(r, id) ==
    /\ found' = Found("delete", r, "returned")
    /\ tables' = [tables EXCEPT ![r] =
                      [i \in 1..Len(@) |-> IF @[i].id = id
                                            THEN [@[i] EXCEPT !.deleted = TRUE]
                                            ELSE @[i]]]

\* the rowids of the rows WHERE deleted_at IS NULL
LiveRows(table) == {i \in 1..Len(table) : ~table[i].deleted}

\* findMostRecent: ... WHERE deleted_at IS NULL ORDER BY updated_at DESC LIMIT 1
\* returns null or the id of the first row of the sort; of the rows with the
\* greatest updated_at SQLite returns the one it read first, the one with the
\* lowest rowid (SQL itself leaves the choice open)
FindMostRecent(table) ==
    LET live == LiveRows(table)
    IN IF live = {} THEN None
       ELSE table[CHOOSE i \in live : \A j \in live :
                      \/ table[j].updatedAt < table[i].updatedAt
                      \/ table[j].updatedAt = table[i].updatedAt /\ i <= j].id

RepoFindMostRecent(r) ==
    /\ found' = Found("findMostRecent", r, FindMostRecent(tables[r]))
    /\ UNCHANGED tables

RepoNext ==
    \/ \E r \in Repos : \E id \in SessionIds : \E t \in Clock : RepoCreate(r, id, t)
    \/ \E r \in Repos : \E id \in SessionIds : \E t \in Clock : RepoUpdate(r, id, t)
    \/ \E r \in Repos : \E id \in SessionIds : RepoDelete(r, id)
    \/ \E r \in Repos : RepoFindMostRecent(r)

\* findById on the sessions table of the manager: the row, or null
FindById(sid) == IF store[sid].present /\ ~store[sid].deleted THEN store[sid] ELSE NoRow

\* ----------------------------------------------------- OutputParser calls
parserVars == <<parser, pHist, pLast>>

\* start: the parser when the history began; origin: "new" or "reset";
\* wasDown: the parser that was reset had been downgraded by a malformed line;
\* text, out: the chunks and the results since then, concatenated;
\* down: a malformed line has downgraded the parser; modeSet: setMode was called
NewHist(ps, origin, wasDown) ==
    [start |-> ps, origin |-> origin, wasDown |-> wasDown, text |-> <<>>, out |-> <<>>,
     down |-> FALSE, modeSet |-> FALSE]

PCall(op, chunk, results, downBefore) ==
    [op |-> op, chunk |-> chunk, results |-> results, downBefore |-> downBefore]

ParserInit ==
    /\ parser = NewParser
    /\ pHist = NewHist(NewParser, "new", FALSE)
    /\ pLast = PCall("new", <<>>, <<>>, FALSE)

PParse(chunk) ==
    /\ Len(pHist.text) + Len(chunk) <= MaxText
    /\ LET r == Parse(parser, chunk)
       IN /\ parser' = r.parser
          /\ pHist' = [pHist EXCEPT !.text = @ \o chunk, !.out = @ \o r.results,
                                    !.down = @ \/ r.failed]
          /\ pLast' = PCall("parse", chunk, r.results, pHist.down)

PReset ==
    /\ pLast.op # "reset"
    /\ parser' = Reset(parser)
    /\ pHist' = NewHist(Reset(parser), "reset", pHist.down)
    /\ pLast' = PCall("reset", <<>>, <<>>, pHist.down)

\* setMode right after the construction or a reset, as the callers do
PSetMode(mode) ==
    /\ pHist.text = <<>> /\ ~pHist.modeSet
    /\ parser' = SetMode(parser, mode)
    /\ pHist' = [pHist EXCEPT !.start = SetMode(parser, mode), !.modeSet = TRUE]
    /\ pLast' = PCall("setMode", <<>>, <<>>, pHist.down)

\* setMode at any moment: the history goes on, a downgrade is forgotten
PSetModeAny(mode) ==
    /\ parser' = SetMode(parser, mode)
    /\ pHist' = [pHist EXCEPT !.start = IF pHist.text = <<>> THEN SetMode(parser, mode) ELSE @,
                              !.modeSet = TRUE, !.down = FALSE]
    /\ pLast' = PCall("setMode", <<>>, <<>>, pHist.down)

ParserNext ==
    \/ \E chunk \in Chunks : PParse(chunk)
    \/ PReset
    \/ \E mode \in {"auto", "raw", "json"} : PSetMode(mode)

\* ------------------------------------------------------------------- next
\* inputs a call does not read are not enumerated
DbOutcomes(p) ==
    IF backend = "repo" /\ Validation[p] = "ok" THEN BOOLEAN ELSE {TRUE}
CreateSpawnOutcomes(p) ==
    IF backend = "repo" /\ Validation[p] = "ok" THEN SpawnOutcomes ELSE {TRUE}
SendSpawnOutcomes(sid) ==
    IF Known(sessions, sid) /\ sessions[sid].handle = None THEN SpawnOutcomes ELSE {TRUE}

MgrNext ==
    \/ \E p \in PathStrings : \E dbOk \in DbOutcomes(p) : \E spawnOk \in CreateSpawnOutcomes(p) :
          CreateSession(p, dbOk, spawnOk)
    \/ \E sid \in SessionIds : \E ok \in BOOLEAN : SaveDone(sid, ok)
    \/ \E o \in fileOps : \E ok \in BOOLEAN : \E spawnOk \in SpawnOutcomes :
          CreateResume(o, ok, spawnOk)
    \/ \E sid \in SessionIds : DestroySession(sid)
    \/ \E o \in fileOps : DestroyResume(o)
    \/ \E sid \in SessionIds : \E spawnOk \in SendSpawnOutcomes(sid) :
          SendMessage(sid, "a", 1, TRUE, spawnOk)
    \/ \E pid \in ProcIds : \E code \in {0, 1} : ProcessExit(pid, code)
    \/ LoadSessions
    \/ LoadResume

vars == <<mgrVars, parserVars, repoVars, shutVars, histVars, migVars>>

Init == MgrInit /\ ParserInit /\ RepoInit /\ ShutInit /\ MigInit /\ config = NoRepos

Next == MgrNext /\ UNCHANGED <<parserVars, repoVars, shutVars, histVars, migVars>>

\* the session manager
Spec == Init /\ [][Next]_vars

\* the session manager with a session and a message repository: the sends
\* get any clock reading and the insert may fail
WithMessages == [messageRepo |-> TRUE, outputRepo |-> FALSE]

MsgNext ==
    \/ \E spawnOk \in SpawnOutcomes : CreateSession(<<>>, TRUE, spawnOk)
    \/ \E sid \in SessionIds : DestroySession(sid)
    \/ \E sid \in SessionIds : \E now \in Clock : \E msgOk \in BOOLEAN :
          \E spawnOk \in SendSpawnOutcomes(sid) : SendMessage(sid, "a", now, msgOk, spawnOk)
    \/ \E pid \in ProcIds : \E code \in {0, 1} : ProcessExit(pid, code)

MsgInit ==
    /\ MgrInit /\ ParserInit /\ RepoInit /\ ShutInit /\ MigInit
    /\ config = WithMessages /\ backend = "repo" /\ nextSid = 1

SpecMessages ==
    /\ MsgInit
    /\ [][MsgNext /\ UNCHANGED <<parserVars, repoVars, shutVars, histVars, migVars>>]_vars

\* the session manager with a session and an output repository: the processes
\* deliver data, and the batch insert may fail
WithOutputs == [messageRepo |-> FALSE, outputRepo |-> TRUE]
InsertOutcomes == IF outputBuffer # <<>> THEN BOOLEAN ELSE {TRUE}

OutputNext ==
    \/ CreateSession(<<>>, TRUE, TRUE)
    \/ \E sid \in SessionIds : DestroySession(sid)
    \/ \E pid \in ProcIds : \E chunk \in DataChunks : \E insertOk \in InsertOutcomes :
          ProcessData(pid, chunk, 1, insertOk)
    \/ \E insertOk \in InsertOutcomes : FlushTimerFires(insertOk)
    \/ \E insertOk \in InsertOutcomes : FlushOutputs(insertOk)

OutputInit ==
    /\ MgrInit /\ ParserInit /\ RepoInit /\ ShutInit /\ MigInit
    /\ config = WithOutputs /\ backend = "repo" /\ nextSid = 1

SpecOutput ==
    /\ OutputInit
    /\ [][OutputNext /\ UNCHANGED <<parserVars, repoVars, shutVars, histVars, migVars>>]_vars

\* ... where a timer that is set fires in the end (setTimeout)
FlushTimer ==
    /\ \E insertOk \in InsertOutcomes : FlushTimerFires(insertOk)
    /\ UNCHANGED <<parserVars, repoVars, shutVars, histVars, migVars>>

SpecOutputLive ==
    /\ OutputInit
    /\ [][OutputNext /\ UNCHANGED <<parserVars, repoVars, shutVars, histVars, migVars>>]_vars
    /\ WF_vars(FlushTimer)

\* the readings of Date.now() not earlier than that of the last buffered record
LaterClock ==
    {t \in Clock : outputBuffer # <<>> => t >= outputBuffer[Len(outputBuffer)].timestamp}

\* ... where the clock advances between the data callbacks
StampedNext ==
    \/ CreateSession(<<>>, TRUE, TRUE)
    \/ \E pid \in ProcIds : \E chunk \in DataChunks : \E now \in LaterClock :
          \E insertOk \in InsertOutcomes : ProcessData(pid, chunk, now, insertOk)
    \/ \E insertOk \in InsertOutcomes : FlushTimerFires(insertOk)
    \/ \E insertOk \in InsertOutcomes : FlushOutputs(insertOk)

SpecStamped ==
    /\ OutputInit
    /\ [][StampedNext /\ UNCHANGED <<parserVars, repoVars, shutVars, histVars, migVars>>]_vars

\* the session manager with a session repository: the sends carry either content
StdinNext ==
    \/ \E spawnOk \in SpawnOutcomes : CreateSession(<<>>, TRUE, spawnOk)
    \/ \E sid \in SessionIds : DestroySession(sid)
    \/ \E sid \in SessionIds : \E content \in Contents : \E spawnOk \in SendSpawnOutcomes(sid) :
          SendMessage(sid, content, 1, TRUE, spawnOk)
    \/ \E pid \in ProcIds : \E code \in {0, 1} : ProcessExit(pid, code)

StdinInit ==
    /\ MgrInit /\ ParserInit /\ RepoInit /\ ShutInit /\ MigInit
    /\ config = NoRepos /\ backend = "repo" /\ nextSid = 1

SpecStdin ==
    /\ StdinInit
    /\ [][StdinNext /\ UNCHANGED <<parserVars, repoVars, shutVars, histVars, migVars>>]_vars

\* two SessionRepository objects on their own databases
SpecRepo ==
    /\ Init /\ backend = "repo" /\ nextSid = 1
    /\ [][RepoNext /\ UNCHANGED <<mgrVars, parserVars, shutVars, histVars, migVars>>]_vars

\* the session manager with a session repository: the processes deliver
\* data and exit, messages start new ones, and the sessions are loaded again
RestartNext ==
    \/ \E spawnOk \in SpawnOutcomes : CreateSession(<<>>, TRUE, spawnOk)
    \/ \E sid \in SessionIds : \E spawnOk \in SendSpawnOutcomes(sid) :
          SendMessage(sid, "a", 1, TRUE, spawnOk)
    \/ \E pid \in ProcIds : \E chunk \in DataChunks : ProcessData(pid, chunk, 1, TRUE)
    \/ \E pid \in ProcIds : \E code \in {0, 1} : ProcessExit(pid, code)
    \/ LoadSessions

SpecRestart ==
    /\ StdinInit
    /\ [][RestartNext /\ UNCHANGED <<parserVars, repoVars, shutVars, histVars, migVars>>]_vars

\* the session manager and its shutdown: sessions are created and used while
\* the persistence sweep runs and destroyAll is called
ShutdownNext ==
    \/ \E spawnOk \in SpawnOutcomes : CreateSession(<<>>, TRUE, spawnOk) /\ UNCHANGED shutVars
    \/ \E o \in fileOps : \E spawnOk \in SpawnOutcomes :
          CreateResume(o, TRUE, spawnOk) /\ UNCHANGED shutVars
    \/ \E sid \in SessionIds : SaveDone(sid, TRUE) /\ UNCHANGED shutVars
    \/ \E sid \in SessionIds : \E spawnOk \in SendSpawnOutcomes(sid) :
          SendMessage(sid, "a", 1, TRUE, spawnOk) /\ UNCHANGED shutVars
    \/ \E pid \in ProcIds : \E code \in {0, 1} : ProcessExit(pid, code) /\ UNCHANGED shutVars
    \/ PersistAllSessions
    \/ DestroyAllCall
    \/ \E o \in fileOps : DestroyAllResume(o)

ShutdownInit == Init /\ nextSid = 1

SpecShutdown ==
    /\ ShutdownInit
    /\ [][ShutdownNext /\ UNCHANGED <<parserVars, repoVars, histVars, migVars>>]_vars

\* the session manager with an output repository and either backend:
\* sessions are destroyed and loaded while their processes deliver data and
\* exit; the ids whose destroySession has resolved are remembered
OneLine == <<"{", "}", "\n">>

AfterDestroyNext ==
    \/ nextPid <= MaxProcs /\ CreateSession(<<>>, TRUE, TRUE)
    \/ \E o \in fileOps : nextPid <= MaxProcs /\ CreateResume(o, TRUE, TRUE)
    \/ \E sid \in SessionIds : SaveDone(sid, TRUE)
    \/ \E sid \in SessionIds : DestroySession(sid)
    \/ \E o \in fileOps : DestroyResume(o)
    \/ \E pid \in ProcIds : ProcessData(pid, OneLine, 1, TRUE)
    \/ \E pid \in ProcIds : \E code \in {0, 1} : ProcessExit(pid, code)
    \/ FlushTimerFires(TRUE)
    \/ LoadSessions
    \/ LoadResume

ResolvedDestroy ==
    IF lastOp.op = "destroySession" /\ lastOp.outcome = "resolved" THEN {lastOp.sid} ELSE {}

AfterDestroyInit ==
    /\ MgrInit /\ ParserInit /\ RepoInit /\ ShutInit /\ MigInit
    /\ config = WithOutputs /\ nextSid = 1

SpecAfterDestroy ==
    /\ AfterDestroyInit
    /\ [][/\ AfterDestroyNext
          /\ destroyed' = destroyed \cup ResolvedDestroy'
          /\ UNCHANGED <<parserVars, repoVars, shutVars, migVars>>]_vars

\* the migration runner on two databases
SpecMigrations ==
    /\ Init /\ backend = "repo" /\ nextSid = 1
    /\ [][MigNext /\ UNCHANGED <<mgrVars, parserVars, repoVars, shutVars, histVars>>]_vars

\* one ProcessPool on its own
SpecPool ==
    /\ Init /\ backend = "repo" /\ nextSid = 1
    /\ [][PoolNext /\ UNCHANGED <<parserVars, repoVars, shutVars, histVars, migVars>>]_vars

\* one OutputParser on its own
SpecParser ==
    /\ Init /\ backend = "repo" /\ nextSid = 1
    /\ [][ParserNext /\ UNCHANGED <<mgrVars, repoVars, shutVars, histVars, migVars>>]_vars

\* one OutputParser whose mode is forced or released at any moment, fed the
\* chunks of process output
SetModeNext ==
    \/ \E chunk \in DataChunks : PParse(chunk)
    \/ PReset
    \/ \E mode \in {"auto", "raw", "json"} : PSetModeAny(mode)

SpecSetMode ==
    /\ Init /\ backend = "repo" /\ nextSid = 1
    /\ [][SetModeNext /\ UNCHANGED <<mgrVars, repoVars, shutVars, histVars, migVars>>]_vars

\* ----------------------------------------------------------------- claims
\* the processes spawned for a session that have neither exited nor been killed
LiveProcs(sid) == {p \in ProcIds : procs[p].sess = sid /\ procs[p].state = "live"}

\* C1: in every reachable state each session has at most one live external
\* process
C1_AtMostOneLiveProcess == \A sid \in SessionIds : Cardinality(LiveProcs(sid)) <= 1

\* C2: a session whose status is running has a process handle bound to it
C2_RunningHasProcess ==
    \A sid \in KnownIds : sessions[sid].status = "running" => sessions[sid].handle # None

\* C3: when sendMessage finds no bound process and the spawn fails, it returns
\* normally, a status event error is emitted and the session's status at the
\* return is error
C3_SendSpawnFailureEndsInError ==
    (lastOp.op = "sendMessage" /\ lastOp.spawn = "failed") =>
        /\ lastOp.outcome = "returned"
        /\ \E i \in 1..Len(emitted) : emitted[i] = StatusEvent(lastOp.sid, "error")
        /\ sessions[lastOp.sid].status = "error"

\* C4: with a valid working directory and a successful persistence write,
\* createSession resolves also when the auto-start spawn fails; the session is
\* then registered, its status is error and a status event error was emitted.
\* createSession rejects only for the validation or the persistence write.
C4_CreateSurvivesSpawnFailure ==
    /\ (lastOp.op = "createSession" /\ lastOp.spawn = "failed") =>
          /\ lastOp.outcome = "resolved"
          /\ Known(sessions, lastOp.sid)
          /\ sessions[lastOp.sid].status = "error"
          /\ \E i \in 1..Len(emitted) : emitted[i] = StatusEvent(lastOp.sid, "error")
    /\ (lastOp.op = "createSession" /\ lastOp.outcome = "rejected") =>
          /\ lastOp.spawn = "none"
          /\ lastOp.why \in {"traversal", "missing", "notdir", "persist"}

C4_Witness == lastOp.op = "createSession" /\ lastOp.spawn = "failed"

C6_CreateReturnsIdle ==
    (lastOp.op = "createSession" /\ lastOp.outcome = "resolved") => lastOp.status = "idle"

\* C6 as amended: the session createSession returns has the id drawn when the
\* call started, which no session known, stored or being written then had (ids
\* in use are below the next one drawn), and when no
\* other call acted on the session while createSession was suspended its
\* status is idle if the auto-start spawn succeeded and error if it failed
C6_CreateReturnsIdleUnlessSpawnFailed ==
    /\ (lastOp.op = "createSession" /\ lastOp.outcome = "resolved") =>
          /\ lastOp.sid \in SessionIds
          /\ lastOp.sid < nextSid
          /\ lastOp.why = "quiet" =>
                lastOp.status = (IF lastOp.spawn = "failed" THEN "error" ELSE "idle")
    /\ (lastOp.op = "createSession" /\ lastOp.why \in {"none", "quiet"}
           /\ lastOp.outcome \in {"suspended", IF backend = "repo" THEN "resolved" ELSE "suspended"}) =>
          lastOp.sid = nextSid - 1
    /\ \A sid \in SessionIds :
          (Known(sessions, sid) \/ store[sid].present \/ \E o \in fileOps : o.sid = sid) =>
              sid < nextSid

C6_Witness ==
    /\ lastOp.op = "createSession" /\ lastOp.outcome = "resolved" /\ lastOp.why = "quiet"
    /\ lastOp.spawn = "ok"
    /\ lastOp.sid = 2 /\ Known(sessions, 1)

\* the strings tried that hold ".."
TraversalStrings == {p \in PathStrings : Includes(p, <<".", ".">>)}

\* C7: createSession rejects every working-directory string that contains
\* "..", whether or not the resolved path exists, and a rejected call registers
\* no session, persists nothing and spawns no process
C7_TraversalRejected ==
    [][lastOp'.op = "createSession" =>
          \A p \in TraversalStrings : \A dbOk \in BOOLEAN : \A spawnOk \in BOOLEAN :
              CreateSession(p, dbOk, spawnOk) =>
                  /\ lastOp'.outcome = "rejected"
                  /\ lastOp'.why = "traversal"
                  /\ UNCHANGED <<sessions, store, fileOps, saving, pool, procs, nextPid>>]_vars

\* a call with a string that holds ".." and resolves to an existing directory
\* was rejected
C7_Witness ==
    /\ lastOp.op = "createSession" /\ lastOp.outcome = "rejected" /\ lastOp.why = "traversal"
    /\ \E p \in TraversalStrings : IsDirectory(Resolve(p))

\* the complete lines of a text (the pieces before each newline)
CompleteLines(text) ==
    LET pieces == Split(text, "\n") IN SubSeq(pieces, 1, Len(pieces) - 1)

\* the line parses as a JSON object
IsJsonObject(line) == JsonParse(line).ok /\ JsonParse(line).kind = "object"

\* a text made of newline-terminated lines that each parse as a JSON object
ValidNdjson(text) ==
    /\ text # <<>> /\ text[Len(text)] = "\n"
    /\ \A i \in 1..Len(CompleteLines(text)) : IsJsonObject(CompleteLines(text)[i])

\* the results of handing the lines of a text to parse() one line per call
RECURSIVE FeedLines(_, _, _)
FeedLines(ps, lines, acc) ==
    IF lines = <<>> THEN acc
    ELSE LET r == Parse(ps, Append(Head(lines), "\n"))
         IN FeedLines(r.parser, Tail(lines), acc \o r.results)

\* C8: for a parser in auto or forced-json mode and a text of valid
\* newline-terminated JSON object lines, every split of the text into chunks
\* yields the results of delivering each line in one call, none of them raw
C8_ChunkingInvariant ==
    (pHist.start \in {NewParser, SetMode(NewParser, "json")} /\ ValidNdjson(pHist.text)) =>
        /\ pHist.out = FeedLines(pHist.start, CompleteLines(pHist.text), <<>>)
        /\ \A i \in 1..Len(pHist.out) : pHist.out[i].type = "parsed"

\* C8 holds of a parser forced to json
C8_ChunkingInvariantForcedJson ==
    (pHist.start = SetMode(NewParser, "json") /\ ValidNdjson(pHist.text)) =>
        /\ pHist.out = FeedLines(pHist.start, CompleteLines(pHist.text), <<>>)
        /\ \A i \in 1..Len(pHist.out) : pHist.out[i].type = "parsed"

\* C9: once a malformed line has downgraded a parser to raw, every later
\* parse(chunk) before a reset or setMode returns the chunk as one raw event
C9_DowngradeIsSticky ==
    (pLast.op = "parse" /\ pLast.downBefore) => pLast.results = <<RawOutput(pLast.chunk)>>

\* a downgraded parser was handed valid JSON lines
C9_Witness == pLast.op = "parse" /\ pLast.downBefore /\ ValidNdjson(pLast.chunk)

\* the parsed events of the lines of a chunk
ParsedLines(chunk) ==
    [i \in 1..Len(CompleteLines(chunk)) |->
        ParsedOutput(CompleteLines(chunk)[i], MapToEvent(JsonParse(CompleteLines(chunk)[i])))]

\* the first parse() after the reset() of an auto-mode parser that a malformed
\* line had downgraded
AfterResetOfDowngraded ==
    /\ pLast.op = "parse" /\ pHist.text = pLast.chunk
    /\ pHist.origin = "reset" /\ pHist.wasDown
    /\ parser.mode = "auto" /\ ~pHist.modeSet

\* C10: reset() empties the pending-line buffer, and after the reset() of a
\* downgraded auto-mode parser a chunk of complete valid JSON lines puts the
\* parser in json mode and is returned as parsed events
C10_ResetReentersJson ==
    /\ pLast.op = "reset" => parser.lineBuffer = <<>>
    /\ (AfterResetOfDowngraded /\ ValidNdjson(pLast.chunk)) =>
          /\ GetMode(parser) = "json"
          /\ pLast.results = ParsedLines(pLast.chunk)

C10_Witness == AfterResetOfDowngraded /\ ValidNdjson(pLast.chunk)

\* C11: parse(chunk) returns for every chunk and every parser, and a line
\* that does not parse as a JSON object is never returned as a parsed event
C11_NonObjectLineIsRaw ==
    pLast.op = "parse" =>
        \A i \in 1..Len(pLast.results) :
            pLast.results[i].type = "parsed" => IsJsonObject(pLast.results[i].content)

\* C12: with a message repository configured, the history of a session lists
\* the stored messages of the session in the order sendMessage was called for
\* them (the order of their rowids), whatever the clock readings were
C12_HistoryInSendOrder ==
    \A sid \in SessionIds :
        LET h == FindBySessionId(sid)
        IN \A i, j \in 1..Len(h) : i < j => h[i].id < h[j].id

\* C14: a sendMessage that returns with a process bound to the session has
\* appended content and a newline to the input of that process, once, after
\* everything written before, and has written to no other process; one that
\* returns with no process bound has written nothing
C14_WritesInSendOrder ==
    [][(lastOp'.op = "sendMessage" /\ lastOp'.outcome = "returned") =>
          \A q \in ProcIds :
              procs'[q].input = IF q = lastOp'.pid
                                THEN LastOf(Append(procs[q].input, <<lastArg'.content, "\n">>))
                                ELSE procs[q].input]_vars

\* two different messages have been written to one process
C14_Witness ==
    /\ lastOp.op = "sendMessage" /\ lastOp.outcome = "returned" /\ lastOp.pid # None
    /\ procs[lastOp.pid].input = <<(<<"a", "\n">>), (<<"b", "\n">>)>>

\* the outputs carried by a sequence of output events
OutputsOf(events) == [i \in 1..Len(events) |-> events[i].output]

\* the lines the parser emits of a text: its complete lines that are not blank
EmittedLines(text) == SelectSeq(CompleteLines(text), LAMBDA line : Trim(line) # <<>>)

\* the rows of a sequence of batches
RECURSIVE RowsOf(_)
RowsOf(bs) == IF bs = <<>> THEN <<>> ELSE Head(bs).rows \o RowsOf(Tail(bs))

\* the step is a data callback of a session the manager knows
DataStep == lastOp'.op = "data" /\ lastOp'.outcome # "noop"

\* C13: the output events of a chunk are emitted inside the data callback of
\* that chunk, for its session only, in the order of the lines they come
\* from (or as the one raw event holding the chunk), so that every event of an
\* earlier chunk precedes every event of a later one
C13_OutputInEmissionOrder ==
    [][DataStep =>
          LET sid == lastOp'.sid
              text == mparser[sid].lineBuffer \o lastArg'.chunk
              contents == [i \in 1..Len(emitted') |-> emitted'[i].output.content]
          IN /\ \A i \in 1..Len(emitted') :
                    emitted'[i].kind = "output" /\ emitted'[i].sid = sid
             /\ OutputsOf(emitted') = Parse(mparser[sid], lastArg'.chunk).results
             /\ contents = <<lastArg'.chunk>> \/ contents = EmittedLines(text)]_vars

\* one chunk produced two events with different contents
C13_Witness ==
    /\ lastOp.op = "data" /\ lastOp.outcome = "returned"
    /\ Len(emitted) = 2 /\ emitted[1].output.content # emitted[2].output.content

\* C17: in a data callback the buffer is flushed exactly when it reaches
\* BufferSize records: each batch handed to the output store holds BufferSize
\* records, the batches and the buffer left hold the records buffered before
\* and those of this callback in order, fewer than BufferSize records are
\* left, and when none is left no timer is pending
C17_FullBufferFlushesAtOnce ==
    [][DataStep =>
          LET pushed == [i \in 1..Len(emitted') |->
                            BufferedOutput(lastOp'.sid, emitted'[i].output,
                                           emitted'[i].timestamp)]
          IN /\ RowsOf(batches') \o outputBuffer' = outputBuffer \o pushed
             /\ \A i \in 1..Len(batches') : Len(batches'[i].rows) = BufferSize
             /\ Len(outputBuffer') < BufferSize
             /\ outputBuffer' = <<>> => outputBufferTimer' = None]_vars

\* a data callback has handed over one batch holding records of two sessions
\* and left the buffer empty
C17_Witness ==
    /\ lastOp.op = "data" /\ Len(batches) = 1 /\ outputBuffer = <<>>
    /\ \E i, j \in 1..Len(batches[1].rows) :
          batches[1].rows[i].sessionId # batches[1].rows[j].sessionId

\* C18: the pending timer is the one set for the first buffered record (later
\* records set no other), a timer is pending whenever records are buffered,
\* and when it fires one batch holding all buffered records is handed over,
\* the buffer is empty and no timer is pending
C18_TimerFlushesOnce ==
    [][/\ outputBufferTimer' \in {None, 1}
       /\ outputBuffer' # <<>> <=> outputBufferTimer' # None
       /\ lastOp'.op = "flushTimer" =>
             /\ outputBuffer # <<>> /\ Len(outputBuffer) < BufferSize
             /\ Len(batches') = 1 /\ batches'[1].rows = outputBuffer
             /\ outputBuffer' = <<>> /\ outputBufferTimer' = None]_vars

\* the timer fired with two records buffered
C18_Witness == lastOp.op = "flushTimer" /\ Len(batches) = 1 /\ Len(batches[1].rows) = 2

\* C19: a flush of a non-empty buffer calls createBatch once with the whole
\* buffer and leaves the buffer empty whether the call returns or throws; the
\* throw reaches neither the caller of flushOutputs nor the data callback,
\* which still emits the output event of every record
C19_FlushSwallowsInsertFailure ==
    [][/\ (lastOp'.op \in {"flushOutputs", "flushTimer"} /\ outputBuffer # <<>>) =>
             /\ Len(batches') = 1 /\ batches'[1].rows = outputBuffer
             /\ outputBuffer' = <<>>
             /\ lastOp'.outcome \in {"resolved", "returned"}
       /\ DataStep =>
             /\ lastOp'.outcome = "returned"
             /\ OutputsOf(emitted') = Parse(mparser[lastOp'.sid], lastArg'.chunk).results
             /\ \A i \in 1..Len(batches') : batches'[i].rows # <<>>
             /\ batches' # <<>> => Len(outputBuffer') < Len(emitted')]_vars

\* a data callback whose batch insert threw has emitted its output events
C19_Witness ==
    /\ lastOp.op = "data" /\ lastOp.outcome = "returned"
    /\ Len(batches) = 1 /\ ~batches[1].ok /\ emitted # <<>>

\* the sessions stored in a table, whatever the order they were inserted in
StoredSet(table) == {table[i] : i \in 1..Len(table)}

\* C15: when destroySession resolves the session is in the map no more, and
\* with the repository backend its row is still in the table, marked deleted,
\* and returned by neither findAll (of whose rows findMostRecent returns one)
\* nor findById
C15_DestroySoftDeletes ==
    (lastOp.op = "destroySession" /\ lastOp.outcome = "resolved") =>
        /\ ~Known(sessions, lastOp.sid)
        /\ lastOp.sid \notin KnownIds
        /\ backend = "repo" =>
              /\ store[lastOp.sid].present /\ store[lastOp.sid].deleted
              /\ lastOp.sid \notin StoredIds
              /\ FindById(lastOp.sid) = NoRow

\* C16: findMostRecent returns null when no session is stored undeleted, else
\* an undeleted session whose updated_at no other undeleted one exceeds, and
\* two tables storing the same sessions give the same answer
C16_MostRecentIsDeterministic ==
    /\ found.op = "findMostRecent" =>
          LET table == tables[found.repo]
          IN IF LiveRows(table) = {} THEN found.result = None
             ELSE \E i \in LiveRows(table) :
                      /\ table[i].id = found.result
                      /\ \A j \in LiveRows(table) : table[j].updatedAt <= table[i].updatedAt
    /\ StoredSet(tables[1]) = StoredSet(tables[2]) =>
          FindMostRecent(tables[1]) = FindMostRecent(tables[2])

\* a step that is a call of sendMessage or destroySession, as opposed to the
\* resumption of a destroySession waiting for the file storage
CallOf(op) ==
    /\ lastOp'.op = op
    /\ (op = "destroySession" /\ backend = "file") => lastOp'.outcome # "resolved"

\* what a silent no-op leaves alone: nothing thrown, nothing persisted, no
\* process spawned, killed or written to, no event, the session map as it was
SilentNoOp ==
    /\ lastOp'.outcome \notin {"threw", "rejected"}
    /\ UNCHANGED <<sessions, store, fileOps, saving, messages, outputBuffer, outputBufferTimer>>
    /\ UNCHANGED <<pool, procs, nextPid, mparser>>
    /\ emitted' = <<>> /\ batches' = <<>>

\* C20: sendMessage and destroySession on an id the manager does not know
\* change nothing and emit nothing, and a destroySession called right after a
\* destroySession of the same id resolved changes nothing either
C20_UnknownIdIsNoOp ==
    [][/\ ((CallOf("sendMessage") \/ CallOf("destroySession"))
             /\ ~sessions[lastOp'.sid].present) => SilentNoOp
       /\ (lastOp.op = "destroySession" /\ lastOp.outcome = "resolved"
             /\ CallOf("destroySession") /\ lastOp'.sid = lastOp.sid) => SilentNoOp]_vars

\* a destroySession of a session whose row was already marked deleted
C20_Witness ==
    /\ lastOp.op = "destroySession" /\ lastOp.outcome = "noop"
    /\ ~sessions[lastOp.sid].present
    /\ store[lastOp.sid].present /\ store[lastOp.sid].deleted

\* a manager nothing has been registered in and that has spawned nothing
FreshManager == KnownIds = {} /\ pool = {} /\ nextPid = 1 /\ fileOps = {}

\* the sessions the loadSessions that resolves in this step has read
LoadedIds == IF backend = "repo" THEN StoredIds ELSE loadSnap.ids

\* this step spawns a process for session s
SpawnsFor(s) == nextPid' = nextPid + 1 /\ procs'[nextPid].sess = s

\* C21: when loadSessions resolves on a fresh manager every stored, undeleted
\* session is in the map with status idle, a new parser and no process, the
\* step spawns nothing, and a process is spawned for a known idle session
\* without one only by a sendMessage on that session
C21_LoadedSessionsAreIdle ==
    [][/\ (lastOp'.op = "loadSessions" /\ lastOp'.outcome = "resolved" /\ FreshManager) =>
             /\ \A s \in LoadedIds :
                    /\ Known(sessions', s)
                    /\ sessions'[s].status = "idle"
                    /\ sessions'[s].handle = None
                    /\ mparser'[s] = NewParser
             /\ UNCHANGED <<pool, procs, nextPid>>
       /\ \A s \in SessionIds :
             (/\ SpawnsFor(s)
              /\ Known(sessions, s) /\ sessions[s].handle = None
              /\ \A o \in fileOps : ~(o.kind = "create" /\ o.sid = s)) =>
                 lastOp'.op = "sendMessage" /\ lastOp'.sid = s]_vars

\* a session stored as running has been loaded as idle, nothing spawned yet
C21_Witness ==
    /\ lastOp.op = "loadSessions" /\ lastOp.outcome = "resolved"
    /\ nextPid = 1
    /\ \E s \in KnownIds : store[s].status = "running" /\ sessions[s].status = "idle"

\* the processes the pty layer runs that were not told to stop
Registered == {p \in ProcIds : procs[p].state = "live"}

\* C22: write, resize and kill on an id that is not in the registry reach no
\* process, leave the registry as it was and raise nothing
C22_UnregisteredIdIsNoOp ==
    [][(lastOp'.op \in {"write", "resize", "kill"} /\ lastOp'.pid \notin pool) =>
           /\ UNCHANGED <<pool, procs, nextPid>>
           /\ lastOp'.outcome = "returned"]_vars

\* a write, resize or kill on the id of a process that has exited
C22_Witness ==
    /\ lastOp.op \in {"write", "resize", "kill"}
    /\ lastOp.pid # None /\ procs[lastOp.pid].state = "exited"

\* C23: the registry is the set of the processes spawned that have neither
\* exited nor been killed; a spawn that returns registers an id never used, a
\* spawn that throws registers nothing, and killAll empties the registry
C23_RegistryIsLiveProcesses ==
    [][/\ pool' = Registered'
       /\ (lastOp'.op = "spawn" /\ lastOp'.outcome = "returned") =>
             /\ procs[lastOp'.pid].state = "none"
             /\ pool' = pool \cup {lastOp'.pid}
       /\ (lastOp'.op = "spawn" /\ lastOp'.outcome = "threw") => UNCHANGED <<pool, procs>>
       /\ lastOp'.op \in {"kill", "onExit"} => pool' = pool \ {lastOp'.pid}
       /\ lastOp'.op = "killAll" =>
             /\ pool' = {}
             /\ \A p \in pool : procs'[p].state = "killed"]_vars

\* killAll has stopped two processes at once
C23_Witness ==
    /\ lastOp.op = "killAll"
    /\ Cardinality({p \in ProcIds : procs[p].state = "killed"}) = 2
    /\ pool = {}

\* C24: when the first chunk of a process bound to a session is parsed, the
\* parser of the session holds no pending line and has detected no format
C24_NewProcessFindsCleanParser ==
    [][\A pid \in ProcIds :
          (/\ lastOp'.op = "data" /\ lastOp'.pid = pid
           /\ ~procs[pid].fed
           /\ Known(sessions, procs[pid].sess)
           /\ sessions[procs[pid].sess].handle = pid) =>
              /\ mparser[procs[pid].sess].lineBuffer = <<>>
              /\ mparser[procs[pid].sess].detectedMode = "null"]_vars

\* C25: when destroyAll resolves the persistence timer is stopped, every
\* session the call found in the map is gone from it and the map is empty; a
\* session leaves the map with the process bound to it stopped; and no
\* persistence sweep runs once destroyAll has been called
C25_DestroyAllLeavesNothing ==
    [][/\ (destroyAll'.state = "resolved" /\ destroyAll.state # "resolved") =>
             /\ ~persistenceTimer'
             /\ \A s \in destroyAll'.snap : ~Known(sessions', s)
             /\ \A s \in SessionIds : ~Known(sessions', s)
       /\ \A s \in SessionIds :
             (destroyAll'.state # "idle" /\ Known(sessions, s) /\ ~Known(sessions', s)
              /\ sessions[s].handle # None) => sessions[s].handle \notin pool'
       /\ lastOp'.op = "persistAll" => destroyAll.state = "idle"]_vars

\* s is a prefix of t
IsPrefix(s, t) == Len(s) <= Len(t) /\ SubSeq(t, 1, Len(s)) = s

\* C26: a buffered record leaves the buffer only in a batch handed to the
\* output store, and a buffer that holds records is emptied in the end,
\* whether the sessions of the records are still in the map or not
C26_BufferedOutputIsFlushed ==
    /\ [][IsPrefix(outputBuffer, RowsOf(batches') \o outputBuffer')]_vars
    /\ (outputBuffer # <<>>) ~> (outputBuffer = <<>>)

\* a flush by the timer or by flushOutputs has handed over a record of a
\* session that was destroyed while the record was buffered
C26_Witness ==
    /\ lastOp.op \in {"flushTimer", "flushOutputs"}
    /\ batches # <<>>
    /\ \E i \in 1..Len(batches[1].rows) : ~Known(sessions, batches[1].rows[i].sessionId)

\* the records of session s in a sequence of output records
RecordsOf(rows, s) == SelectSeq(rows, LAMBDA r : r.sessionId = s)

\* C27: once destroySession(s) has resolved no step emits an event carrying
\* s and no step buffers a new output record of s
C27_SilentAfterDestroy ==
    [][\A s \in destroyed :
          /\ \A i \in 1..Len(emitted') : emitted'[i].sid # s
          /\ RecordsOf(RowsOf(batches') \o outputBuffer', s) = RecordsOf(outputBuffer, s)]_vars

\* a createSession call has ended in this step for the session id it drew
CreateEnded ==
    /\ lastOp'.op = "createSession" /\ lastOp'.sid # None
    /\ lastOp'.outcome \in {"resolved", "rejected"}

\* C28: a createSession whose first write failed rejects for that reason,
\* having spawned nothing: it resolves only with the session written to the
\* store, and with the repository backend a missing row means it rejected
C28_FailedCreateWriteRejects ==
    [][CreateEnded =>
          /\ lastOp'.outcome = "resolved" => store'[lastOp'.sid].present
          /\ (backend = "repo" /\ ~store'[lastOp'.sid].present) =>
                 lastOp'.outcome = "rejected" /\ lastOp'.why = "persist"
          /\ lastOp'.why = "persist" =>
                 /\ lastOp'.outcome = "rejected"
                 /\ nextPid' = nextPid /\ pool' = pool
                 /\ store'[lastOp'.sid] = store[lastOp'.sid]]_vars

\* a createSession has rejected because the insert into the sessions table
\* failed
C28_Witness ==
    /\ lastOp.op = "createSession" /\ lastOp.outcome = "rejected" /\ lastOp.why = "persist"
    /\ backend = "repo" /\ ~store[lastOp.sid].present

\* C29: a sendMessage on a known session whose insert into the messages table
\* threw (the table is as before) returns normally, leaves the session
\* running with the status event emitted, and writes the message and a
\* newline to the process bound to the session
C29_SendSurvivesStoreFailure ==
    [][(/\ lastOp'.op = "sendMessage" /\ lastOp'.outcome # "noop"
        /\ config.messageRepo /\ messages' = messages) =>
           LET sid == lastOp'.sid
               h == sessions'[sid].handle
           IN /\ lastOp'.outcome = "returned"
              /\ sessions'[sid].status = "running"
              /\ \E i \in 1..Len(emitted') : emitted'[i] = StatusEvent(sid, "running")
              /\ (h # None /\ h \in pool') =>
                     procs'[h].input = LastOf(Append(procs[h].input,
                                                     <<lastArg'.content, "\n">>))]_vars

\* a message that was not stored has been written to a live process
C29_Witness ==
    /\ lastOp.op = "sendMessage" /\ lastOp.outcome = "returned"
    /\ config.messageRepo /\ messages = <<>>
    /\ lastOp.pid # None /\ procs[lastOp.pid].state = "live"
    /\ procs[lastOp.pid].input # <<>>

\* the versions of a migrations table, in the order of its rows
VersionsOf(table) == [i \in 1..Len(table) |-> table[i].version]

\* the migrations of the list that a table does not record, in list order
Pending(table) == SelectSeq(Migrations, LAMBDA v : v \notin GetAppliedVersions(table))

\* C30: a call of runMigrations commits, in list order and each once, the
\* sql of migrations its table did not record (all of them and their count
\* returned unless it throws), adds exactly their rows, so that the table
\* records the committed sql and holds one row per version; on a table that
\* records every migration it changes nothing and returns 0
C30_MigrationsRunOnce ==
    [][migLast'.op = "runMigrations" =>
          LET d == migLast'.db
              pending == Pending(migTables[d])
              new == SubSeq(schemas'[d], Len(schemas[d]) + 1, Len(schemas'[d]))
          IN /\ IsPrefix(schemas[d], schemas'[d])
             /\ IsPrefix(new, pending)
             /\ ~migLast'.threw => new = pending /\ migLast'.ret = Len(pending)
             /\ VersionsOf(migTables'[d]) = VersionsOf(migTables[d]) \o new
             /\ VersionsOf(migTables'[d]) = schemas'[d]
             /\ \A i, j \in 1..Len(migTables'[d]) :
                    migTables'[d][i].version = migTables'[d][j].version => i = j
             /\ pending = <<>> =>
                    /\ migLast'.ret = 0 /\ ~migLast'.threw
                    /\ migTables'[d] = migTables[d] /\ schemas'[d] = schemas[d]]_vars

\* a run on a database that records every migration has returned 0
C30_Witness ==
    /\ migLast.op = "runMigrations" /\ migLast.ret = 0 /\ ~migLast.threw
    /\ Len(migTables[migLast.db]) = MaxMigrations

\* C31: while the mode is forced to raw, every parse(chunk) returns one raw
\* event whose content is the chunk as it came, getMode() is raw afterwards
\* and the pending-line buffer is left as it was
C31_ForcedRawPassesThrough ==
    [][(parser.mode = "raw" /\ pLast'.op = "parse" /\ pHist'.text # pHist.text) =>
          /\ Len(pLast'.results) = 1
          /\ pLast'.results[1].type = "raw"
          /\ pLast'.results[1].content = pLast'.chunk
          /\ GetMode(parser') = "raw"
          /\ parser'.lineBuffer = parser.lineBuffer]_vars

\* a parser forced to raw while it held a fragment was handed valid JSON lines
\* that end in white space
C31_Witness ==
    /\ parser.mode = "raw" /\ pLast.op = "parse"
    /\ parser.lineBuffer # <<>>
    /\ ValidNdjson(pLast.chunk)

\* the contents of a sequence of parser results, concatenated
RECURSIVE ContentsOf(_)
ContentsOf(results) ==
    IF results = <<>> THEN <<>> ELSE Head(results).content \o ContentsOf(Tail(results))

\* the parser has been in json mode since its last reset: forced to json, or
\* an auto-mode parser that has returned a parsed event
JsonHistory ==
    \/ pHist.start.mode = "json"
    \/ pHist.start.mode = "auto" /\ \E i \in 1..Len(pHist.out) : pHist.out[i].type = "parsed"

\* C37: a parser that has been in json mode has returned, white space aside,
\* all the text it was fed except the fragment it still holds, which is the
\* end of that text: nothing is dropped or returned twice, also after a
\* downgrade to raw
C37_NoTextDropped ==
    JsonHistory => NoWs(ContentsOf(pHist.out)) \o NoWs(parser.lineBuffer) = NoWs(pHist.text)

\* C38: a parse() call returns no parsed event after a raw event of the same
\* call, and none at all once a malformed line has downgraded the parser
C38_NoParsedAfterMalformed ==
    pLast.op = "parse" =>
        /\ pLast.downBefore => \A i \in 1..Len(pLast.results) : pLast.results[i].type # "parsed"
        /\ \A i, j \in 1..Len(pLast.results) :
              (i < j /\ pLast.results[i].type = "raw") => pLast.results[j].type # "parsed"

\* the first parse() after the reset() of a parser forced to json that a
\* malformed line had downgraded
AfterResetOfForcedJson ==
    /\ pLast.op = "parse" /\ pHist.text = pLast.chunk
    /\ pHist.origin = "reset" /\ pHist.wasDown
    /\ parser.mode = "json" /\ ~pHist.modeSet

\* C39: after reset() a parser whose mode is forced reports the forced mode,
\* and a parser forced to json that had downgraded returns valid JSON lines
\* as parsed events again
C39_ResetKeepsForcedMode ==
    /\ (pLast.op = "reset" /\ parser.mode \in {"raw", "json"}) => GetMode(parser) = parser.mode
    /\ (AfterResetOfForcedJson /\ ValidNdjson(pLast.chunk)) => pLast.results = ParsedLines(pLast.chunk)

\* C34: a createSession that rejects leaves the manager as it was before the
\* call: for a validation failure the map and the pool are untouched, for a
\* failed write the id it drew is not in the map and no process was spawned
C34_RejectedCreateLeavesNoTrace ==
    [][(lastOp'.op = "createSession" /\ lastOp'.outcome = "rejected") =>
          /\ nextPid' = nextPid /\ pool' = pool
          /\ lastOp'.sid = None => sessions' = sessions
          /\ lastOp'.sid # None => ~Known(sessions', lastOp'.sid)]_vars

\* the positions of the status events of session s with status x in a
\* sequence of events
StatusEventsOf(events, s, x) == {i \in 1..Len(events) : events[i] = StatusEvent(s, x)}

\* C40: a step of the manager emits no status twice for a session, and a
\* step in which updateSessionStatus changed the status of a session emits
\* the new status of that session once
C40_OneStatusEventPerChange ==
    [][\A s \in SessionIds :
          /\ \A x \in Statuses : Cardinality(StatusEventsOf(emitted', s, x)) <= 1
          /\ (/\ Known(sessions, s) /\ Known(sessions', s)
              /\ sessions'[s].status # sessions[s].status
              /\ lastOp'.op \notin {"loadSessions"}) =>
                 Cardinality(StatusEventsOf(emitted', s, sessions'[s].status)) = 1]_vars

\* the sessions of the map whose bound handle is process p
HoldersOf(ss, p) == {s \in SessionIds : Known(ss, s) /\ ss[s].handle = p}

\* C36: after every step each registered process is the bound handle of one
\* session of the map, and the exit callback of a process leaves the handle
\* of its session alone when another process is bound to it
C36_NoOrphanProcess ==
    [][/\ \A p \in pool' : Cardinality(HoldersOf(sessions', p)) = 1
       /\ \A s \in SessionIds :
             (/\ lastOp'.op = "exit" /\ lastOp'.sid = s
              /\ Known(sessions, s) /\ sessions[s].handle \notin {None, lastOp'.pid}) =>
                 sessions'[s].handle = sessions[s].handle]_vars

\* no write of session s is in flight: no unawaited saveSession and no call
\* suspended on FileStorage
WritesSettled(s) == saving[s] = 0 /\ \A o \in fileOps : o.sid # s

\* C35: once destroySession(s) has resolved and the writes of s have settled,
\* the store does not list s (findAll / loadAllSessions)
C35_DestroyedStaysUnlisted ==
    \A s \in destroyed : WritesSettled(s) => s \notin StoredIds

\* C32: after every operation a flush timer is pending exactly when records
\* are buffered, fewer than BufferSize records are buffered, and after a
\* flush no timer is pending
C32_TimerPendingIffBuffered ==
    /\ (outputBufferTimer # None) <=> (outputBuffer # <<>>)
    /\ Len(outputBuffer) < BufferSize
    /\ lastOp.op \in {"flushTimer", "flushOutputs"} =>
           outputBufferTimer = None /\ outputBuffer = <<>>

\* a data callback filled the buffer, which was flushed, and buffered one
\* more record, for which a new timer is pending
C32_Witness ==
    /\ lastOp.op = "data" /\ Len(batches) = 1
    /\ Len(outputBuffer) = 1 /\ outputBufferTimer # None

\* for each output event of a sequence the record with its session id, type,
\* content, event and timestamp
RecordsFor(events) ==
    [i \in 1..Len(events) |->
        [sessionId |-> events[i].sid, type |-> events[i].output.type,
         content |-> events[i].output.content, event |-> events[i].output.event,
         timestamp |-> events[i].timestamp]]

\* C33: with an output repository, a data callback emits the results of the
\* parser in order, each once and with the session id of the callback, and
\* buffers for each the record with the same session id, type, content, event
\* and timestamp; the batches handed over and the buffer left are, in order,
\* the buffer before and these records, so that the batches handed to the
\* store always spell a prefix of the live events
C33_LiveAndBufferedAgree ==
    [][/\ DataStep =>
             /\ OutputsOf(emitted') = Parse(mparser[lastOp'.sid], lastArg'.chunk).results
             /\ \A i \in 1..Len(emitted') :
                    /\ emitted'[i].kind = "output" /\ emitted'[i].sid = lastOp'.sid
                    /\ emitted'[i].timestamp = lastArg'.now
             /\ RowsOf(batches') \o outputBuffer' = outputBuffer \o RecordsFor(emitted')
       /\ ~DataStep =>
             /\ \A i \in 1..Len(emitted') : emitted'[i].kind # "output"
             /\ RowsOf(batches') \o outputBuffer' = outputBuffer]_vars

\* a data callback has emitted two events at a clock reading that differs
\* from that of a record buffered before, and has handed over a batch
C33_Witness ==
    /\ lastOp.op = "data" /\ Len(emitted) = 2 /\ Len(batches) = 1
    /\ \E i \in 1..Len(batches[1].rows) : batches[1].rows[i].timestamp # lastArg.now
    /\ RowsOf(batches) \o outputBuffer # RecordsFor(emitted)

====
